---------------------------- MODULE Spec2Model ----------------------------
(***************************************************************************)
(* Lead form of the landing page: field validation, phone mask, the form   *)
(* state machine and the lead submission pipeline (GAS backend, Bitrix24   *)
(* webhook with retry and backoff, email fallback, mock).                  *)
(*                                                                         *)
(* Strings are sequences of UTF-16 code units, as JavaScript strings are.  *)
(* The browser runs one task at a time: every action below is one task     *)
(* (an event handler, or the continuation of an async function after an    *)
(* await on the network or a timer) run to completion, with the            *)
(* continuations across already settled promises folded into the task.     *)
(***************************************************************************)
EXTENDS Integers, Sequences, FiniteSets, TLC

\* ------------------------------------------------------------------ bounds

\* Invocations of handleFormSubmit that can be in flight at once.
MaxInFlight == 2

\* Largest retryAttempts an integrations document sets.
MaxAttempts == 3

\* Characters appended to a text handed to formatPhoneNumber and validateField.
MaxKeys == 2

\* Invocations of loadSectionsSettings that can be in flight at once.
MaxLoads == 2
MaxEvents == 3
MaxTimers == 1

\* ------------------------------------------------------------ characters

Digit == 48..57                      \* \d
LatinLetter == (65..90) \cup (97..122)   \* a-zA-Z
\* а-я, А-Я, ё, Ё
CyrillicLetter == (1072..1103) \cup (1040..1071) \cup {1105, 1025}
\* \s of a JavaScript regular expression, which is also what trim() strips
WhiteSpace == {9, 10, 11, 12, 13, 32, 160, 5760, 8232, 8233, 8239, 8287, 12288, 65279} \cup (8192..8202)
\* UTF-16 surrogate code units
HighSurrogate == 55296..56319
LowSurrogate == 56320..57343

Min(a, b) == IF a < b THEN a ELSE b

\* a substring that ignores its end index
substringToEnd(s, from, to) == SubSeq(s, from + 1, Len(s))

\* String.prototype.substring(from, to) with 0 <= from, 0-based, to exclusive
substring(s, from, to) == SubSeq(s, from + 1, Min(to, Len(s)))

\* value.replace(/\D/g, '')
RECURSIVE digitsOf(_)
digitsOf(s) ==
  IF s = <<>> THEN <<>>
  ELSE IF Head(s) \in Digit THEN <<Head(s)>> \o digitsOf(Tail(s))
  ELSE digitsOf(Tail(s))

\* String.prototype.trim
RECURSIVE trimStart(_)
trimStart(s) == IF s # <<>> /\ Head(s) \in WhiteSpace THEN trimStart(Tail(s)) ELSE s

RECURSIVE trimEnd(_)
trimEnd(s) ==
  IF s # <<>> /\ s[Len(s)] \in WhiteSpace THEN trimEnd(SubSeq(s, 1, Len(s) - 1)) ELSE s

trim(s) == trimEnd(trimStart(s))

\* ---------------------------------------------------------- phone mask

\* a mask that closes the parenthesis after every digit of the area code
formatPhoneNumberClosing(value) ==
  LET raw == digitsOf(value)
      norm == IF Len(raw) > 0
              THEN IF raw[1] = 56 THEN <<55>> \o Tail(raw)
                   ELSE IF raw[1] # 55 THEN <<55>> \o raw
                   ELSE raw
              ELSE raw
      digits == substring(norm, 0, 11)
      n == Len(digits)
      p1 == IF n >= 1 THEN <<43, 55>> ELSE <<>>
      p2 == IF n >= 2 THEN p1 \o <<32, 40>> \o substring(digits, 1, Min(4, n)) \o <<41>> ELSE p1
      p3 == IF n >= 5 THEN p2 \o <<32>> \o substring(digits, 4, Min(7, n)) ELSE p2
      p4 == IF n >= 8 THEN p3 \o <<45>> \o substring(digits, 7, Min(9, n)) ELSE p3
      p5 == IF n >= 10 THEN p4 \o <<45>> \o substring(digits, 9, 11) ELSE p4
  IN p5

\* a mask that puts a 7 before every first digit but 8, a first 7 included
formatPhoneNumberAlwaysPrepends(value) ==
  LET raw == digitsOf(value)
      norm == IF Len(raw) > 0
              THEN IF raw[1] = 56 THEN <<55>> \o Tail(raw) ELSE <<55>> \o raw
              ELSE raw
      digits == substring(norm, 0, 11)
      n == Len(digits)
      p1 == IF n >= 1 THEN <<43, 55>> ELSE <<>>
      p2 == IF n >= 2 THEN p1 \o <<32, 40>> \o substring(digits, 1, Min(4, n)) ELSE p1
      p3 == IF n >= 5 THEN p2 \o <<41, 32>> \o substring(digits, 4, Min(7, n)) ELSE p2
      p4 == IF n >= 8 THEN p3 \o <<45>> \o substring(digits, 7, Min(9, n)) ELSE p3
      p5 == IF n >= 10 THEN p4 \o <<45>> \o substring(digits, 9, 11) ELSE p4
  IN p5

\* a mask that puts no 7 before a first digit other than 7 and 8
formatPhoneNumberNeverPrepends(value) ==
  LET raw == digitsOf(value)
      norm == IF Len(raw) > 0 /\ raw[1] = 56 THEN <<55>> \o Tail(raw) ELSE raw
      digits == substring(norm, 0, 11)
      n == Len(digits)
      p1 == IF n >= 1 THEN <<43, 55>> ELSE <<>>
      p2 == IF n >= 2 THEN p1 \o <<32, 40>> \o substring(digits, 1, Min(4, n)) ELSE p1
      p3 == IF n >= 5 THEN p2 \o <<41, 32>> \o substring(digits, 4, Min(7, n)) ELSE p2
      p4 == IF n >= 8 THEN p3 \o <<45>> \o substring(digits, 7, Min(9, n)) ELSE p3
      p5 == IF n >= 10 THEN p4 \o <<45>> \o substring(digits, 9, 11) ELSE p4
  IN p5

\* "+7", " (", ") ", "-"
formatPhoneNumber(value) ==
  LET raw == digitsOf(value)
      norm == IF Len(raw) > 0
              THEN IF raw[1] = 56 THEN <<55>> \o Tail(raw)
                   ELSE IF raw[1] # 55 THEN <<55>> \o raw
                   ELSE raw
              ELSE raw
      digits == substring(norm, 0, 11)
      n == Len(digits)
      p1 == IF n >= 1 THEN <<43, 55>> ELSE <<>>
      p2 == IF n >= 2 THEN p1 \o <<32, 40>> \o substring(digits, 1, Min(4, n)) ELSE p1
      p3 == IF n >= 5 THEN p2 \o <<41, 32>> \o substring(digits, 4, Min(7, n)) ELSE p2
      p4 == IF n >= 8 THEN p3 \o <<45>> \o substring(digits, 7, Min(9, n)) ELSE p3
      p5 == IF n >= 10 THEN p4 \o <<45>> \o substring(digits, 9, 11) ELSE p4
  IN p5

\* ---------------------------------------------------------- validation

\* /^[а-яА-ЯёЁa-zA-Z\s-]+$/
NamePattern(v) ==
  /\ Len(v) >= 1
  /\ \A i \in 1..Len(v) : v[i] \in CyrillicLetter \cup LatinLetter \cup WhiteSpace \cup {45}

\* the phone pattern without its end anchor
PhonePatternUnanchored(v) ==
  /\ Len(v) >= 18
  /\ SubSeq(v, 1, 4) = <<43, 55, 32, 40>>
  /\ \A i \in {5, 6, 7, 10, 11, 12, 14, 15, 17, 18} : v[i] \in Digit
  /\ v[8] = 41 /\ v[9] = 32 /\ v[13] = 45 /\ v[16] = 45

\* /^\+7 \(\d{3}\) \d{3}-\d{2}-\d{2}$/
PhonePattern(v) ==
  /\ Len(v) = 18
  /\ SubSeq(v, 1, 4) = <<43, 55, 32, 40>>
  /\ \A i \in {5, 6, 7, 10, 11, 12, 14, 15, 17, 18} : v[i] \in Digit
  /\ v[8] = 41 /\ v[9] = 32 /\ v[13] = 45 /\ v[16] = 45

NameMessage == "name: at least 2 characters, letters only"
PhoneMessage == "phone: full number in the format +7 (999) 123-45-67"
ProgramMessage == "program: choose a program"

FieldNames == {"name", "phone", "program"}

\* minLength 0 stands for "no minLength", hasPattern FALSE for "no pattern"
ValidationRules ==
  [name    |-> [required |-> FALSE, minLength |-> 2, hasPattern |-> TRUE,  message |-> NameMessage],
   phone   |-> [required |-> FALSE, minLength |-> 0, hasPattern |-> TRUE,  message |-> PhoneMessage],
   program |-> [required |-> TRUE,  minLength |-> 0, hasPattern |-> FALSE, message |-> ProgramMessage]]

PatternTest(fieldName, value) ==
  IF fieldName = "name" THEN NamePattern(value) ELSE PhonePattern(value)

Valid == [valid |-> TRUE, message |-> ""]
Invalid(message) == [valid |-> FALSE, message |-> message]

\* validateField without its required-check
validateFieldSkipsRequired(fieldName, value) ==
  IF fieldName \notin DOMAIN ValidationRules THEN Valid
  ELSE LET rules == ValidationRules[fieldName] IN
       IF rules.minLength # 0 /\ Len(value) < rules.minLength THEN Invalid(rules.message)
       ELSE IF rules.hasPattern /\ ~PatternTest(fieldName, value) THEN Invalid(rules.message)
       ELSE Valid

validateField(fieldName, value) ==
  IF fieldName \notin DOMAIN ValidationRules THEN Valid
  ELSE LET rules == ValidationRules[fieldName] IN
       IF rules.required /\ value = <<>> THEN Invalid(rules.message)
       ELSE IF rules.minLength # 0 /\ Len(value) < rules.minLength THEN Invalid(rules.message)
       ELSE IF rules.hasPattern /\ ~PatternTest(fieldName, value) THEN Invalid(rules.message)
       ELSE Valid

\* validateForm without its check of the program
validateFormWithoutProgram(formData) ==
  [f \in FieldNames |->
     IF f = "program" \/ validateField(f, formData[f]).valid THEN ""
     ELSE validateField(f, formData[f]).message]

\* the errors object: the invalid fields with their messages ("" for no entry)
validateForm(formData) ==
  [f \in FieldNames |->
     IF validateField(f, formData[f]).valid THEN "" ELSE validateField(f, formData[f]).message]


\* ------------------------------------------------------------ form state

FormState == {"idle", "validating", "submitting", "success", "error"}

\* setFormState leaving the button enabled while submitting
ButtonForSubmittingEnabled(state) ==
  CASE state = "validating" -> [disabled |-> TRUE,  textContent |-> "checking"]
    [] state = "submitting" -> [disabled |-> FALSE, textContent |-> "sending"]
    [] state = "success"    -> [disabled |-> TRUE,  textContent |-> "sent"]
    [] state = "error"      -> [disabled |-> FALSE, textContent |-> "try again"]
    [] OTHER                -> [disabled |-> FALSE, textContent |-> "send request"]

\* setFormState leaving the button enabled after a success
ButtonForSuccessEnabled(state) ==
  CASE state = "validating" -> [disabled |-> TRUE,  textContent |-> "checking"]
    [] state = "submitting" -> [disabled |-> TRUE,  textContent |-> "sending"]
    [] state = "success"    -> [disabled |-> FALSE, textContent |-> "sent"]
    [] state = "error"      -> [disabled |-> FALSE, textContent |-> "try again"]
    [] OTHER                -> [disabled |-> FALSE, textContent |-> "send request"]

\* setFormState leaving the button disabled in the error state
ButtonForErrorDisabled(state) ==
  CASE state = "validating" -> [disabled |-> TRUE,  textContent |-> "checking"]
    [] state = "submitting" -> [disabled |-> TRUE,  textContent |-> "sending"]
    [] state = "success"    -> [disabled |-> TRUE,  textContent |-> "sent"]
    [] state = "error"      -> [disabled |-> TRUE,  textContent |-> "try again"]
    [] OTHER                -> [disabled |-> FALSE, textContent |-> "send request"]

\* setFormState giving the error state the label of the idle state
ButtonForErrorLabelIdle(state) ==
  CASE state = "validating" -> [disabled |-> TRUE,  textContent |-> "checking"]
    [] state = "submitting" -> [disabled |-> TRUE,  textContent |-> "sending"]
    [] state = "success"    -> [disabled |-> TRUE,  textContent |-> "sent"]
    [] OTHER                -> [disabled |-> FALSE, textContent |-> "send request"]

\* the switch of setFormState: the submit button's disabled flag and label
ButtonFor(state) ==
  CASE state = "validating" -> [disabled |-> TRUE,  textContent |-> "checking"]
    [] state = "submitting" -> [disabled |-> TRUE,  textContent |-> "sending"]
    [] state = "success"    -> [disabled |-> TRUE,  textContent |-> "sent"]
    [] state = "error"      -> [disabled |-> FALSE, textContent |-> "try again"]
    [] OTHER                -> [disabled |-> FALSE, textContent |-> "send request"]

\* ------------------------------------------------------------ inputs

\* "A", "Anna Li"
NameInputs == {<<65>>, <<65, 110, 110, 97, 32, 76, 105>>}
\* typed or pasted phone text: "9991234567", "999123456"
PhoneInputs == {<<57, 57, 57, 49, 50, 51, 52, 53, 54, 55>>, <<57, 57, 57, 49, 50, 51, 52, 53, 54>>}
\* "", "heroes" (the select's options)
ProgramInputs == {<<>>, <<104, 101, 114, 111, 101, 115>>}
\* "", and a comment holding an unpaired high surrogate
CommentInputs == {<<>>, <<55357>>}

EmptyFields ==
  [name |-> <<>>, phone |-> <<>>, program |-> <<>>, childrenCount |-> <<>>, comment |-> <<>>]

\* no unpaired surrogate: what encodeURIComponent needs in order not to throw URIError
IsWellFormed(s) ==
  \A i \in 1..Len(s) :
    /\ s[i] \in HighSurrogate => (i < Len(s) /\ s[i + 1] \in LowSurrogate)
    /\ s[i] \in LowSurrogate => (i > 1 /\ s[i - 1] \in HighSurrogate)

\* ------------------------------------------------------------ results

\* the same text as the default of showSuccessMessage
GasSuccessMessage == "request sent successfully"
BitrixSuccessMessage == "request sent to Bitrix24"
EmailFallbackMessage == "request sent by email (Bitrix24 unavailable)"
EmailFallbackWarning == "Bitrix24 API unavailable, email fallback used"
MockMessage == "request sent (test mode)"
CreateLeadFailedMessage == "could not send the request, please call us"
GenericErrorMessage == "error while sending, try later or call us"
DefaultSuccessMessage == GasSuccessMessage
SendingErrorMessage == "sending error"

NoResult == [success |-> FALSE, method |-> "", message |-> "", warning |-> ""]
GasResult == [success |-> TRUE, method |-> "gas", message |-> GasSuccessMessage, warning |-> ""]
BitrixResult == [success |-> TRUE, method |-> "bitrix24", message |-> BitrixSuccessMessage, warning |-> ""]
EmailFallbackResult ==
  [success |-> TRUE, method |-> "email_fallback", message |-> EmailFallbackMessage,
   warning |-> EmailFallbackWarning]
MockResult == [success |-> TRUE, method |-> "mock", message |-> MockMessage, warning |-> ""]

\* what the JSONP call to the GAS backend can end in
GasOutcomes ==
  {"success",        \* callback data with a truthy success
   "error_text",     \* success falsy, error a text
   "no_error_text",  \* success falsy, no error
   "empty_error",    \* success falsy, error truthy with an empty text
   "no_data",        \* callback called with null: reading .success throws TypeError
   "script_error",   \* script.onerror
   "timeout"}        \* the 30 s timer

\* the message of gasError
GasErrorMessage(outcome) ==
  CASE outcome = "error_text"    -> "gas: error text of the response"
    [] outcome = "no_error_text" -> "gas error"
    [] outcome = "empty_error"   -> ""
    [] outcome = "no_data"       -> "TypeError"
    [] outcome = "script_error"  -> "JSONP request failed"
    [] OTHER                     -> "JSONP request timeout"

\* what one fetch of sendToBitrix24 can end in
FetchOutcomes ==
  {"ok",             \* a 2xx response whose body has no error
   "network_error",  \* fetch rejects
   "http_error",     \* response.ok is false
   "api_error"}      \* the body cannot be read, or has an error

\* ------------------------------------------------------------ invocations

Call(op, ok, ms, err) == [op |-> op, ok |-> ok, ms |-> ms, err |-> err]

FreeInv ==
  [pc |-> "free", formData |-> EmptyFields, attempts |-> 0, delay |-> 0, i |-> 0,
   calls |-> <<>>, retryError |-> 0, result |-> NoResult, error |-> "", shown |-> "",
   timer |-> 0]

\* what sendViaEmail returns
SendViaEmailResult ==
  [success |-> TRUE, method |-> "email_fallback", message |-> "request sent by email",
   warning |-> ""]

\* sendViaEmail builds the mail text from the form data and passes the subject and the
\* body through encodeURIComponent, which throws URIError on an unpaired surrogate;
\* nothing else in it fails. TRUE when it returns SendViaEmailResult.
sendViaEmail(formData) ==
  \A f \in {"name", "phone", "program", "childrenCount", "comment"} : IsWellFormed(formData[f])

\* createLead returning what sendViaEmail returned
createLeadReturnsEmailResult(emailResult) == emailResult

\* the result createLead returns from its email fallback
createLeadFallbackResult(emailResult) == EmailFallbackResult

\* createLead reporting the email fallback although sendViaEmail threw
createLeadCatchSwallows(rec) ==
  [rec EXCEPT !.calls = Append(@, Call("email", sendViaEmail(rec.formData), 0,
                                       IF sendViaEmail(rec.formData) THEN "" ELSE "URIError")),
              !.pc = "succeeded", !.result = EmailFallbackResult]

\* the catch block of createLead: the email fallback
createLeadCatch(rec) ==
  IF sendViaEmail(rec.formData)
  THEN [rec EXCEPT !.calls = Append(@, Call("email", TRUE, 0, "")),
                   !.pc = "succeeded", !.result = createLeadFallbackResult(SendViaEmailResult)]
  ELSE [rec EXCEPT !.calls = Append(@, Call("email", FALSE, 0, "URIError")),
                   !.pc = "failed", !.error = CreateLeadFailedMessage]

RECURSIVE Pow2(_)
Pow2(n) == IF n <= 0 THEN 1 ELSE 2 * Pow2(n - 1)

\* a backoff whose exponent is one too high
waitTimeFromTwo(delay, i) == delay * Pow2(i + 1)

\* Exponential backoff: delay * 2^i
waitTime(delay, i) == delay * Pow2(i)

\* the error retryWithBackoff throws from its catch block in turn i of its loop,
\* named by the number of the call of fn that raised it
thrownError(i) == i + 1

\* the catch block of retryWithBackoff after the call of turn i failed with err
retryCatch(rec, err) ==
  LET logged == [rec EXCEPT !.calls = Append(@, Call("send", FALSE, 0, err))] IN
  IF rec.i = rec.attempts - 1
  THEN createLeadCatch([logged EXCEPT !.retryError = thrownError(rec.i)])
  ELSE [logged EXCEPT !.pc = "await_backoff", !.timer = waitTime(rec.delay, rec.i),
                      !.calls = Append(@, Call("wait", TRUE, waitTime(rec.delay, rec.i), ""))]

\* createLead taking what retryWithBackoff returns after no turn of its loop for the
\* answer of the CRM
retryWithBackoffNoTurnSucceeds(rec, webhookUrl) ==
  IF rec.i < rec.attempts
  THEN IF webhookUrl = "" THEN retryCatch(rec, "config_error")
       ELSE [rec EXCEPT !.pc = "await_fetch"]
  ELSE [rec EXCEPT !.pc = "succeeded", !.result = BitrixResult]

\* the head of the loop of retryWithBackoff, with fn = sendToBitrix24
retryWithBackoff(rec, webhookUrl) ==
  IF rec.i < rec.attempts
  THEN IF webhookUrl = "" THEN retryCatch(rec, "config_error")
       ELSE [rec EXCEPT !.pc = "await_fetch"]
  ELSE createLeadCatch(rec)

createLead(rec, config) ==
  retryWithBackoff([rec EXCEPT !.attempts = config.retryAttempts,
                              !.delay = config.retryDelay, !.i = 0],
                   config.webhookUrl)


\* ------------------------------------------------------------ configuration

DefaultRetryAttempts == 3
DefaultRetryDelay == 1000

\* const Bitrix24Config (fallbackEmail is only written into the log)
DefaultBitrix24Config ==
  [webhookUrl |-> "", retryAttempts |-> DefaultRetryAttempts, retryDelay |-> DefaultRetryDelay]

\* the bitrix24 object of a configuration document
ConfigDocuments ==
  [webhookUrl : {"", "https://b24/rest/1/key"}, retryAttempts : 0..MaxAttempts,
   retryDelay : {500}]

\* data/integrations.json with a bitrix24 object, data/config.json (read when
\* integrations.json cannot be) with one, or neither
ConfigSources == {"integrations", "legacy", "none"}

\* Bitrix24Config after loadBitrix24Config
loadedConfig(source, doc) ==
  CASE source = "integrations" ->
         [webhookUrl |-> doc.webhookUrl,
          retryAttempts |-> IF doc.retryAttempts = 0 THEN DefaultRetryAttempts ELSE doc.retryAttempts,
          retryDelay |-> IF doc.retryDelay = 0 THEN DefaultRetryDelay ELSE doc.retryDelay]
    [] source = "legacy" -> doc
    [] OTHER -> DefaultBitrix24Config

\* ------------------------------------------------------------ state

VARIABLES
  currentFormState,   \* let currentFormState
  submitButton,       \* the form's submit button: disabled, textContent
  fields,             \* the values of the form's inputs
  fieldErrors,        \* the error shown under name, phone, program ("" for none)
  successMessages,    \* the .form-success-message elements of the form, in document order
  scripts,            \* which scripts the page loads: window.GAS_API, createLead, logFormSuccess
  Bitrix24Config,     \* const Bitrix24Config, assigned into by loadBitrix24Config
  configPc,           \* loadBitrix24Config: "none", "loading", "done"
  inv,                \* the invocations of handleFormSubmit
  transitions         \* history: the changes <<from, to>> setFormState made in the latest
                      \* task that called it

\* the run of formatPhoneNumber and validateField over given texts
VARIABLES
  text,               \* the string handed to formatPhoneNumber and to validateField
  keys,               \* how many characters have been appended to the first text
  formatted,          \* let formatted of formatPhoneNumber, as returned for text
  validation          \* what validateField returns for text, for each field name

\* the sections of the page and their settings (blocks-manager.js)
VARIABLES
  sectionsSettings,   \* let sectionsSettings: section key -> setting
  display,            \* style.display of the element of each section key
  origin,             \* what data/settings.json and data/settings-default.json hold
  loads,              \* the invocations of loadSectionsSettings
  programsPc,         \* the programsLoaded event: "loading" before it, "loaded" after
  lastTick            \* history: what the latest setInterval callback did

formVars ==
  <<currentFormState, submitButton, fields, fieldErrors, successMessages, scripts,
    Bitrix24Config, configPc, inv, transitions>>

textVars == <<text, keys, formatted, validation>>

\* analytics.js: the configuration object, the flag and the queue of the module;
\* what data/config.json holds; the position of initAnalytics; the events raised, in
\* order, and the events handed to ym as goals, in order
VARIABLES YandexMetrikaConfig, metrikaInitialized, eventQueue, configFile, analyticsPc,
          raised, reached

settingsVars == <<sectionsSettings, display, origin, loads, programsPc, lastTick>>

\* what the lead form's handlers do not touch
analyticsVars ==
  <<YandexMetrikaConfig, metrikaInitialized, eventQueue, configFile, analyticsPc, raised,
    reached>>

\* programs.js and the pricing section
VARIABLES
  programsFile,       \* what data/programs.json holds
  pricingPc           \* the fetch of updatePricingSectionVisibility: "idle", "await", "done"

pricingVars == <<programsFile, pricingPc>>

\* the phone input under the handlers of initPhoneMask
VARIABLES
  focused,            \* whether the phone input has the focus
  selectionStart,     \* the caret of the phone input
  timers              \* the pending setTimeout(..., 0) callbacks of the handlers, in order

phoneVars == <<focused, selectionStart, timers>>

others == <<textVars, settingsVars, analyticsVars, phoneVars, pricingVars>>

vars == <<formVars, others>>

Slots == 1..MaxInFlight

MockDelay == 1500

\* the reset timer set with the delay of the mock submission
ResetDelayOfMock == MockDelay

ResetDelay == 5000

\* the changes a run of setFormState calls makes, starting from state from
RECURSIVE Changes(_, _)
Changes(from, states) ==
  IF states = <<>> THEN {}
  ELSE (IF Head(states) # from THEN {<<from, Head(states)>>} ELSE {})
       \cup Changes(Head(states), Tail(states))

\* setFormState(state) for each state of states, in order, within one task
setFormState(states) ==
  /\ currentFormState' = states[Len(states)]
  /\ submitButton' = ButtonFor(states[Len(states)])
  /\ transitions' = Changes(currentFormState, states)

NoErrors == [f \in FieldNames |-> ""]

\* the field names validateField is asked about: those with a rule, and one without
ValidatedFields == FieldNames \cup {"comment"}

\* formatPhoneNumber and validateField applied to the text s
TextStart(s) ==
  /\ text = s
  /\ keys = 0
  /\ formatted = formatPhoneNumber(s)
  /\ validation = [f \in ValidatedFields |-> validateField(f, s)]

\* ------------------------------------------------------------ sections

\* the keys of sectionMap, in its order; showAllSections lists the same elements
sectionMap ==
  <<"problemSolution", "programs", "programComparison", "howItWorks", "socialProof",
    "testimonials", "gallery", "pricing", "faq", "faqCta", "leadForm", "footerAbout",
    "footerContacts", "footerDocuments">>

SectionKeys == {sectionMap[i] : i \in 1..Len(sectionMap)}

requiredSections ==
  <<"problemSolution", "programs", "socialProof", "testimonials", "gallery", "faq", "leadForm">>

\* a section of a settings document: title "" for a missing or empty title; enabled
\* "true", "false", or "other" for a value that is no boolean; content "" for missing,
\* "plain" for an object, "null_item" for an object whose steps and stats arrays hold null
Section(enabled, content) == [title |-> "t", enabled |-> enabled, content |-> content]

fullSections ==
  [k \in SectionKeys |-> IF k \in {"gallery", "pricing"} THEN Section("false", "plain")
                         ELSE Section("true", "plain")]

\* the settings documents a fetch can bring, by name; hasSections FALSE for a document
\* without a sections object
Document(name) ==
  CASE name = "noSections" -> [hasSections |-> FALSE, sections |-> <<>>]
    [] name = "emptySections" -> [hasSections |-> TRUE, sections |-> <<>>]
    [] name = "threeRequired" ->
         [hasSections |-> TRUE,
          sections |-> [k \in {"problemSolution", "programs", "leadForm"} |->
                          IF k = "programs" THEN Section("false", "plain")
                          ELSE Section("true", "plain")]]
    [] name = "fourRequired" ->
         [hasSections |-> TRUE,
          sections |-> [k \in {"problemSolution", "programs", "faq", "leadForm", "pricing"} |->
                          IF k = "pricing" THEN Section("false", "plain")
                          ELSE Section("true", "plain")]]
    [] name = "badStructure" ->
         [hasSections |-> TRUE,
          sections |-> [fullSections EXCEPT !["faq"] = Section("other", "plain")]]
    [] name = "nullItem" ->
         [hasSections |-> TRUE,
          sections |-> [fullSections EXCEPT !["problemSolution"] = Section("false", "plain"),
                                            !["howItWorks"] = Section("true", "null_item")]]
    [] name = "defaultFull" ->
         [hasSections |-> TRUE,
          sections |-> [k \in SectionKeys |-> IF k = "faqCta" THEN Section("false", "plain")
                                              ELSE Section("true", "plain")]]
    [] OTHER -> [hasSections |-> TRUE, sections |-> fullSections]

\* what data/settings.json can hold; "unreachable" when the fetch or the parsing fails
SettingsFiles ==
  {"unreachable", "noSections", "threeRequired", "fourRequired", "badStructure", "nullItem",
   "full"}

\* what data/settings-default.json can hold
DefaultFiles == {"unreachable", "noSections", "emptySections", "nullItem", "defaultFull"}

IntegrityValid == [valid |-> TRUE, error |-> ""]
IntegrityInvalid(error) == [valid |-> FALSE, error |-> error]

\* validateSettingsIntegrity without its count of the missing required sections
validateSettingsIntegrityAnyMissing(settings) ==
  LET sections == settings.sections
  IN IF ~settings.hasSections THEN IntegrityInvalid("Missing or invalid sections object")
     ELSE IF DOMAIN sections = {} THEN IntegrityInvalid("Sections object is empty")
     ELSE IF \E key \in DOMAIN sections :
               \/ sections[key].title = ""
               \/ sections[key].enabled \notin {"true", "false"}
               \/ sections[key].content = ""
          THEN IntegrityInvalid("Invalid structure in section")
     ELSE IntegrityValid

validateSettingsIntegrity(settings) ==
  LET sections == settings.sections
      missingSections == {i \in 1..Len(requiredSections) :
                            requiredSections[i] \notin DOMAIN sections}
  IN IF ~settings.hasSections THEN IntegrityInvalid("Missing or invalid sections object")
     ELSE IF DOMAIN sections = {} THEN IntegrityInvalid("Sections object is empty")
     ELSE IF 2 * Cardinality(missingSections) > Len(requiredSections)
          THEN IntegrityInvalid("Too many missing sections")
     ELSE IF \E key \in DOMAIN sections :
               \/ sections[key].title = ""
               \/ sections[key].enabled \notin {"true", "false"}
               \/ sections[key].content = ""
          THEN IntegrityInvalid("Invalid structure in section")
     ELSE IntegrityValid

\* applyContentChanges throws: the steps of howItWorks or the stats of socialProof
\* hold a null, whose fields forEach's callback reads
contentThrows(key, setting) ==
  key \in {"howItWorks", "socialProof"} /\ setting.content = "null_item"

\* the forEach of applySectionsSettings from the i-th key of sectionMap on
RECURSIVE applyFrom(_, _, _)
applyFrom(i, settings, shown) ==
  IF i > Len(sectionMap) THEN [display |-> shown, threw |-> FALSE]
  ELSE LET key == sectionMap[i] IN
       IF key \in DOMAIN settings /\ settings[key].enabled = "false"
       THEN applyFrom(i + 1, settings, [shown EXCEPT ![key] = "none"])
       ELSE IF key \in DOMAIN settings /\ settings[key].content # ""
                 /\ contentThrows(key, settings[key])
            THEN [display |-> [shown EXCEPT ![key] = ""], threw |-> TRUE]
            ELSE applyFrom(i + 1, settings, [shown EXCEPT ![key] = ""])

\* applySectionsSettings on the page shown: the display it leaves, and whether it threw
applySectionsSettings(settings, shown) == applyFrom(1, settings, shown)

showAllSections == [k \in SectionKeys |-> ""]

FreeLoad == [pc |-> "free", primary |-> "", calls |-> {}, end |-> ""]

\* the page after DOMContentLoaded: the first loadSectionsSettings awaits its fetch
SettingsStart(files) ==
  /\ sectionsSettings = <<>>
  /\ display = [k \in SectionKeys |-> ""]
  /\ origin = files
  /\ loads = [r \in 1..MaxLoads |-> IF r = 1 THEN [FreeLoad EXCEPT !.pc = "await_settings"]
                                    ELSE FreeLoad]
  /\ programsPc = "loading"
  /\ lastTick = "none"

\* the lead form as initFormValidation leaves it
\* ------------------------------------------------------------- analytics

\* what data/config.json can hold: "unreachable" when the fetch or the parsing fails,
\* "absent" for a file without yandexMetrika, and a yandexMetrika object that leaves
\* the counter disabled, enables it without a counter id, or enables it with one
ConfigFiles == {"unreachable", "absent", "disabled", "noCounter", "enabled"}

\* YandexMetrikaConfig as written in the source; counterId "" for null
DefaultMetrikaConfig == [enabled |-> FALSE, counterId |-> ""]

\* YandexMetrikaConfig after loadAnalyticsConfig has read the file
loadAnalyticsConfig(config, file) ==
  CASE file = "disabled" -> [enabled |-> FALSE, counterId |-> "id"]
    [] file = "noCounter" -> [enabled |-> TRUE, counterId |-> ""]
    [] file = "enabled" -> [enabled |-> TRUE, counterId |-> "id"]
    [] OTHER -> config

EventNames == {"form_success", "form_error", "form_start"}

\* the module's state as its functions pass it on
Tracker(config, initialized, queue, goals) ==
  [config |-> config, initialized |-> initialized, queue |-> queue, reached |-> goals]

\* trackEvent; once metrikaInitialized is set ym is defined, so that the goal is reached
trackEvent(tracker, event) ==
  IF ~tracker.config.enabled THEN tracker
  ELSE IF ~tracker.initialized THEN [tracker EXCEPT !.queue = Append(@, event)]
  ELSE [tracker EXCEPT !.reached = Append(@, event)]

\* the forEach of processEventQueue from the i-th queued event on
RECURSIVE processFrom(_, _, _)
processFrom(i, queue, tracker) ==
  IF i > Len(queue) THEN tracker
  ELSE processFrom(i + 1, queue, trackEvent(tracker, queue[i]))

processEventQueue(tracker) ==
  IF Len(tracker.queue) > 0
  THEN [processFrom(1, tracker.queue, tracker) EXCEPT !.queue = <<>>]
  ELSE tracker

initYandexMetrika(tracker) ==
  IF ~tracker.config.enabled \/ tracker.config.counterId = "" THEN tracker
  ELSE processEventQueue([tracker EXCEPT !.initialized = TRUE])

\* the page after analytics.js has run and initAnalytics awaits data/config.json
AnalyticsStart(file) ==
  /\ YandexMetrikaConfig = DefaultMetrikaConfig
  /\ metrikaInitialized = FALSE
  /\ eventQueue = <<>>
  /\ configFile = file
  /\ analyticsPc = "await_config"
  /\ raised = <<>>
  /\ reached = <<>>

\* data/programs.json: programs of which one has a positive basePrice, programs of
\* which none has, or a file that cannot be read
ProgramsFiles == {"priced", "unpriced", "unreachable"}

\* the page after DOMContentLoaded: loadPrograms awaits data/programs.json
PricingStart(file) ==
  /\ programsFile = file
  /\ pricingPc = "idle"

\* the phone input of the page as loaded: no focus, the caret at 0, no callback pending
PhoneStart ==
  /\ focused = FALSE
  /\ selectionStart = 0
  /\ timers = <<>>

\* the page as loaded, with the success hook (the global logFormSuccess that
\* handleFormSubmit looks up at call time) drawn from hooks
FormStart(hooks) ==
  /\ PhoneStart
  /\ currentFormState = "idle"
  /\ submitButton = ButtonFor("idle")
  /\ fields = EmptyFields
  /\ fieldErrors = NoErrors
  /\ successMessages = <<>>
  /\ scripts \in [gas : BOOLEAN, bitrix : BOOLEAN, hook : hooks]
  /\ Bitrix24Config = DefaultBitrix24Config
  /\ configPc = IF scripts.bitrix THEN "loading" ELSE "none"
  /\ inv = [id \in Slots |-> FreeInv]
  /\ transitions = {}

\* the page with analytics.js's trackFormSuccess as the success hook
FormInit == FormStart({"returns"})

Init ==
  /\ FormInit
  /\ TextStart(<<>>)
  /\ SettingsStart([settings |-> "full", default |-> "defaultFull"])
  /\ AnalyticsStart("enabled")
  /\ PricingStart("priced")

\* showSuccessMessage(message, warning)
showSuccessMessage(messages, result) ==
  Append(messages,
         [message |-> IF result.message = "" THEN DefaultSuccessMessage ELSE result.message,
          warning |-> result.warning])

\* document.querySelector('.form-success-message')?.remove()
removeSuccessMessage(messages) == IF messages = <<>> THEN <<>> ELSE Tail(messages)

\* handleFormSubmit from "if (result.success)" on, for the invocation id whose tiers
\* have brought it to rec; before are the states set earlier in this task, errors and
\* messages what the task has left of the error and success displays
\* the message of the error a failing success hook throws
HookErrorMessage == "hook failed"

settle(id, rec, before, errors, messages) ==
  CASE rec.pc = "succeeded" /\ rec.result.success /\ scripts.hook = "throws" ->
         \* logFormSuccess throws inside the try block: the catch sets the error state
         \* and shows the thrown message; the reset timer is never scheduled
         /\ setFormState(before \o <<"success", "error">>)
         /\ successMessages' = showSuccessMessage(messages, rec.result)
         /\ fieldErrors' = [errors EXCEPT !.phone = HookErrorMessage]
         /\ inv' = [inv EXCEPT ![id] = [rec EXCEPT !.pc = "done", !.timer = 0,
                                                   !.error = HookErrorMessage,
                                                   !.shown = HookErrorMessage]]
    [] rec.pc = "succeeded" /\ rec.result.success ->
         /\ setFormState(before \o <<"success">>)
         /\ successMessages' = showSuccessMessage(messages, rec.result)
         /\ fieldErrors' = errors
         /\ inv' = [inv EXCEPT ![id] = [rec EXCEPT !.pc = "await_reset", !.timer = ResetDelay]]
    [] rec.pc = "succeeded" /\ ~rec.result.success ->
         /\ setFormState(before \o <<"error">>)
         /\ successMessages' = messages
         /\ fieldErrors' = [errors EXCEPT !.phone =
                              IF rec.result.message = "" THEN SendingErrorMessage ELSE rec.result.message]
         /\ inv' = [inv EXCEPT ![id] = [rec EXCEPT !.pc = "done", !.timer = 0,
                                                   !.error = fieldErrors'.phone,
                                                   !.shown = fieldErrors'.phone]]
    [] rec.pc = "failed" ->
         /\ setFormState(before \o <<"error">>)
         /\ successMessages' = messages
         /\ fieldErrors' = [errors EXCEPT !.phone =
                              IF rec.error = "" THEN GenericErrorMessage ELSE rec.error]
         /\ inv' = [inv EXCEPT ![id] = [rec EXCEPT !.pc = "done", !.timer = 0,
                                                   !.shown = fieldErrors'.phone]]
    [] OTHER ->
         /\ IF before = <<>>
            THEN UNCHANGED <<currentFormState, submitButton, transitions>>
            ELSE setFormState(before)
         /\ successMessages' = messages
         /\ fieldErrors' = errors
         /\ inv' = [inv EXCEPT ![id] = rec]


\* ------------------------------------------------------------ actions

\* an input event whose handler validates the new value and shows what it finds
UserInputRevalidates(field, value) ==
  /\ fields' = [fields EXCEPT ![field] = IF field = "phone" THEN formatPhoneNumber(value) ELSE value]
  /\ fieldErrors' = IF field \in FieldNames
                    THEN [fieldErrors EXCEPT ![field] = validateField(field, fields'[field]).message]
                    ELSE fieldErrors
  /\ UNCHANGED <<currentFormState, submitButton, successMessages, scripts, Bitrix24Config,
                 configPc, inv, transitions, others>>

\* an input event on a field of the form: the value changes (the phone field's through
\* the mask), and the field's own error display, if any, is cleared
UserInput(field, value) ==
  /\ fields' = [fields EXCEPT ![field] = IF field = "phone" THEN formatPhoneNumber(value) ELSE value]
  /\ fieldErrors' = IF field \in FieldNames THEN [fieldErrors EXCEPT ![field] = ""] ELSE fieldErrors
  /\ UNCHANGED <<currentFormState, submitButton, successMessages, scripts, Bitrix24Config,
                 configPc, inv, transitions, others>>

\* loadBitrix24Config completes
loadBitrix24Config(source, doc) ==
  /\ configPc = "loading"
  /\ configPc' = "done"
  /\ Bitrix24Config' = loadedConfig(source, doc)
  /\ UNCHANGED <<currentFormState, submitButton, fields, fieldErrors, successMessages,
                 scripts, inv, transitions, others>>

\* the form data handleFormSubmit collects
collectFormData ==
  [name |-> trim(fields.name), phone |-> trim(fields.phone), program |-> fields.program,
   childrenCount |-> fields.childrenCount, comment |-> trim(fields.comment)]

\* handleFormSubmit asking for createLead before window.GAS_API
firstTierCreateLeadFirst(rec) ==
  IF scripts.bitrix THEN createLead(rec, Bitrix24Config)
  ELSE IF scripts.gas THEN [rec EXCEPT !.pc = "await_gas"]
  ELSE [rec EXCEPT !.pc = "await_mock", !.timer = MockDelay]

\* the tier handleFormSubmit starts first
firstTier(rec) ==
  IF scripts.gas THEN [rec EXCEPT !.pc = "await_gas"]
  ELSE IF scripts.bitrix THEN createLead(rec, Bitrix24Config)
  ELSE [rec EXCEPT !.pc = "await_mock", !.timer = MockDelay]

\* a submit event reaches handleFormSubmit. The browser fires it when the user activates
\* the submit button (by a click, or by Enter in a field), which a disabled button
\* does not allow.
handleFormSubmit(id) ==
  /\ ~submitButton.disabled
  /\ inv[id].pc \in {"free", "done"}
  /\ \A other \in Slots : other < id => inv[other].pc \notin {"free", "done"}
  /\ LET formData == collectFormData
         errors == validateForm(formData)
         rec == [FreeInv EXCEPT !.formData = formData]
     IN IF errors # NoErrors
        THEN /\ setFormState(<<"validating", "error">>)
             /\ fieldErrors' = errors
             /\ successMessages' = removeSuccessMessage(successMessages)
             /\ inv' = [inv EXCEPT ![id] = [rec EXCEPT !.pc = "done", !.error = "validation"]]
        ELSE settle(id, firstTier(rec), <<"validating", "submitting">>, NoErrors,
                    removeSuccessMessage(successMessages))
  /\ UNCHANGED <<fields, scripts, Bitrix24Config, configPc, others>>

\* the JSONP request of the GAS tier ends
gasDone(id, outcome) ==
  /\ inv[id].pc = "await_gas"
  /\ LET rec == [inv[id] EXCEPT !.calls = Append(@, Call("gas", outcome = "success", 0,
                                   IF outcome = "success" THEN "" ELSE outcome))]
         next == IF outcome = "success"
                 THEN [rec EXCEPT !.pc = "succeeded", !.result = GasResult]
                 ELSE IF scripts.bitrix THEN createLead(rec, Bitrix24Config)
                 ELSE [rec EXCEPT !.pc = "failed", !.error = GasErrorMessage(outcome)]
     IN settle(id, next, <<>>, fieldErrors, successMessages)
  /\ UNCHANGED <<fields, scripts, Bitrix24Config, configPc, others>>

\* the fetch of sendToBitrix24 ends
fetchDone(id, outcome) ==
  /\ inv[id].pc = "await_fetch"
  /\ LET rec == inv[id]
         next == IF outcome = "ok"
                 THEN [rec EXCEPT !.calls = Append(@, Call("send", TRUE, 0, "")),
                                  !.pc = "succeeded", !.result = BitrixResult]
                 ELSE retryCatch(rec, "fetch_error")
     IN settle(id, next, <<>>, fieldErrors, successMessages)
  /\ UNCHANGED <<fields, scripts, Bitrix24Config, configPc, others>>

\* the backoff timer of retryWithBackoff fires: the next turn of its loop
backoffDone(id) ==
  /\ inv[id].pc = "await_backoff"
  /\ settle(id, retryWithBackoff([inv[id] EXCEPT !.i = @ + 1, !.timer = 0],
                                 Bitrix24Config.webhookUrl),
            <<>>, fieldErrors, successMessages)
  /\ UNCHANGED <<fields, scripts, Bitrix24Config, configPc, others>>

\* the 1500 ms timer of the mock submission fires
mockDone(id) ==
  /\ inv[id].pc = "await_mock"
  /\ settle(id, [inv[id] EXCEPT !.calls = Append(@, Call("mock", TRUE, 0, "")), !.timer = 0,
                                !.pc = "succeeded", !.result = MockResult],
            <<>>, fieldErrors, successMessages)
  /\ UNCHANGED <<fields, scripts, Bitrix24Config, configPc, others>>

\* the 5000 ms timer set after a success fires
resetTimer(id) ==
  /\ inv[id].pc = "await_reset"
  /\ fields' = EmptyFields
  /\ setFormState(<<"idle">>)
  /\ successMessages' = removeSuccessMessage(successMessages)
  /\ inv' = [inv EXCEPT ![id] = [@ EXCEPT !.pc = "done", !.timer = 0]]
  /\ UNCHANGED <<fieldErrors, scripts, Bitrix24Config, configPc, others>>

Next ==
  \/ \E v \in NameInputs : UserInput("name", v)
  \/ \E v \in PhoneInputs : UserInput("phone", v)
  \/ \E v \in ProgramInputs : UserInput("program", v)
  \/ \E v \in CommentInputs : UserInput("comment", v)
  \/ \E source \in ConfigSources, doc \in ConfigDocuments : loadBitrix24Config(source, doc)
  \/ \E id \in Slots : handleFormSubmit(id)
  \/ \E id \in Slots, outcome \in GasOutcomes : gasDone(id, outcome)
  \/ \E id \in Slots, outcome \in FetchOutcomes : fetchDone(id, outcome)
  \/ \E id \in Slots : backoffDone(id)
  \/ \E id \in Slots : mockDone(id)
  \/ \E id \in Slots : resetTimer(id)

Spec == Init /\ [][Next]_vars

\* every started network call ends and every started timer fires
Fairness ==
  \A id \in Slots :
    /\ WF_vars(\E outcome \in GasOutcomes : gasDone(id, outcome))
    /\ WF_vars(\E outcome \in FetchOutcomes : fetchDone(id, outcome))
    /\ WF_vars(backoffDone(id))
    /\ WF_vars(mockDone(id))
    /\ WF_vars(resetTimer(id))

FairSpec == Spec /\ Fairness

\* the same page when the success hook is whatever global logFormSuccess the page
\* defines, one that returns or one that throws
HookInit ==
  /\ FormStart({"returns", "throws"})
  /\ TextStart(<<>>)
  /\ SettingsStart([settings |-> "full", default |-> "defaultFull"])
  /\ AnalyticsStart("enabled")
  /\ PricingStart("priced")

HookSpec == HookInit /\ [][Next]_vars


\* ------------------------------------------------ the functions on texts

\* the beginnings of s, "" and s among them
Prefixes(s) == {SubSeq(s, 1, k) : k \in 0..Len(s)}

\* "89991234567", "79991234567", "9991234567", "71234", "+7 (999) 123-45-67", "Anna Li",
\* and every beginning of them
TextSeeds ==
  UNION {Prefixes(s) : s \in
    {<<56, 57, 57, 57, 49, 50, 51, 52, 53, 54, 55>>,
     <<55, 57, 57, 57, 49, 50, 51, 52, 53, 54, 55>>,
     <<57, 57, 57, 49, 50, 51, 52, 53, 54, 55>>,
     <<55, 49, 50, 51, 52>>,
     <<43, 55, 32, 40, 57, 57, 57, 41, 32, 49, 50, 51, 45, 52, 53, 45, 54, 55>>,
     <<65, 110, 110, 97, 32, 76, 105>>}}

\* "7", "8", "9", " ", "-", "A", Cyrillic "я", Cyrillic "і" (U+0456), "!"
TextAlphabet == {55, 56, 57, 32, 45, 65, 1103, 1110, 33}

\* the text grows by the character c; formatPhoneNumber and validateField run on it
TypeText(c) ==
  /\ keys < MaxKeys
  /\ text' = text \o <<c>>
  /\ keys' = keys + 1
  /\ formatted' = formatPhoneNumber(text')
  /\ validation' = [f \in ValidatedFields |-> validateField(f, text')]
  /\ UNCHANGED <<formVars, settingsVars, analyticsVars, phoneVars, pricingVars>>

TextInit ==
  /\ FormInit
  /\ scripts = [gas |-> FALSE, bitrix |-> FALSE, hook |-> "returns"]
  /\ \E s \in TextSeeds : TextStart(s)
  /\ SettingsStart([settings |-> "full", default |-> "defaultFull"])
  /\ AnalyticsStart("enabled")
  /\ PricingStart("priced")

TextNext == \E c \in TextAlphabet : TypeText(c)

TextSpec == TextInit /\ [][TextNext]_vars


\* ------------------------------------------------------ the phone input

\* what the handlers of the phone input leave alone
formRest ==
  <<currentFormState, submitButton, successMessages, scripts, Bitrix24Config, configPc, inv,
    transitions>>

Max(a, b) == IF a > b THEN a ELSE b

\* "+7 (", "+7", "+"
MaskPrefixes == {<<43, 55, 32, 40>>, <<43, 55>>, <<43>>}

\* the phone value with its error display, after the input handlers of initPhoneMask
\* and of initRealtimeValidation have run on the value oldValue the browser has left,
\* with the caret at cursorPosition
inputHandlers(oldValue, cursorPosition) ==
  LET newValue == formatPhoneNumber(oldValue)
      oldLength == Len(oldValue)
      newLength == Len(newValue)
      moved == IF newLength > oldLength THEN cursorPosition + (newLength - oldLength)
               ELSE IF newLength < oldLength
                    THEN Max(4, cursorPosition - (oldLength - newLength))
                    ELSE cursorPosition
  IN /\ fields' = [fields EXCEPT !.phone = newValue]
     /\ selectionStart' = IF newValue # oldValue THEN newLength ELSE cursorPosition
     /\ timers' = Append(timers, [op |-> "set", at |-> Max(4, moved)])
     /\ fieldErrors' = [fieldErrors EXCEPT !.phone = ""]

\* the phone input gets the focus, by the keyboard or by a click that puts the caret
\* at position at
focusPhone(at) ==
  /\ ~focused
  /\ at <= Len(fields.phone)
  /\ Len(timers) < MaxTimers
  /\ focused' = TRUE
  /\ IF fields.phone = <<>>
     THEN /\ fields' = [fields EXCEPT !.phone = <<43, 55, 32, 40>>]
          /\ selectionStart' = 4
          /\ timers' = Append(timers, [op |-> "set", at |-> 4])
     ELSE /\ selectionStart' = at
          /\ timers' = Append(timers, [op |-> "atLeast", at |-> 4])
          /\ UNCHANGED fields
  /\ UNCHANGED <<fieldErrors, formRest, textVars, settingsVars, analyticsVars,
                 pricingVars>>

\* the cleanup of the blur handler of initPhoneMask: what it leaves of value
blurCleanupKeepsPlus(value) == IF value \in MaskPrefixes \ {<<43>>, <<43, 55>>} THEN <<>> ELSE value

blurCleanup(value) == IF value \in MaskPrefixes THEN <<>> ELSE value

\* the blur handler of initRealtimeValidation for the phone: the error it leaves shown
blurValidationSkipsEmpty(value) ==
  IF trim(value) = <<>> THEN "" ELSE validateField("phone", trim(value)).message

blurValidation(value) == validateField("phone", trim(value)).message

\* the phone input loses the focus: the blur handler of initPhoneMask runs, then the
\* blur handler of initRealtimeValidation, in the order initFormValidation added them
blurPhone ==
  /\ focused
  /\ focused' = FALSE
  /\ LET cleaned == blurCleanup(fields.phone) IN
     /\ fields' = [fields EXCEPT !.phone = cleaned]
     /\ selectionStart' = IF cleaned # fields.phone THEN 0 ELSE selectionStart
     /\ fieldErrors' = [fieldErrors EXCEPT !.phone = blurValidation(cleaned)]
  /\ UNCHANGED <<timers, formRest, textVars, settingsVars, analyticsVars,
                 pricingVars>>

\* a digit key: the keydown handler lets it pass, the browser puts it at the caret, and
\* the input handlers run
typeDigit(c) ==
  /\ focused
  /\ Len(timers) < MaxTimers
  /\ LET pos == Min(selectionStart, Len(fields.phone))
         oldValue == SubSeq(fields.phone, 1, pos) \o <<c>>
                       \o SubSeq(fields.phone, pos + 1, Len(fields.phone))
     IN inputHandlers(oldValue, pos + 1)
  /\ UNCHANGED <<focused, formRest, textVars, settingsVars, analyticsVars,
                 pricingVars>>

\* the Backspace key: the keydown handler stops it at a caret within "+7 (", else the
\* browser deletes the character before the caret and the input handlers run
pressBackspace ==
  /\ focused
  /\ Len(timers) < MaxTimers
  /\ LET pos == Min(selectionStart, Len(fields.phone)) IN
     IF pos <= 4
     THEN UNCHANGED <<fields, fieldErrors, selectionStart, timers>>
     ELSE inputHandlers(SubSeq(fields.phone, 1, pos - 1)
                          \o SubSeq(fields.phone, pos + 1, Len(fields.phone)), pos - 1)
  /\ UNCHANGED <<focused, formRest, textVars, settingsVars, analyticsVars,
                 pricingVars>>

\* the digit keys pressed: "9"
TypedDigits == {57}

\* "8 (999) 999-99-99", "999", "abc"
PastedTexts ==
  {<<56, 32, 40, 57, 57, 57, 41, 32, 57, 57, 57, 45, 57, 57, 45, 57, 57>>, <<57, 57, 57>>,
   <<97, 98, 99>>}

\* the paste handler: the digits of the pasted text are formatted, and the input event
\* it dispatches runs the input handlers within the same task
pastePhone(pastedText) ==
  /\ focused
  /\ Len(timers) < MaxTimers
  /\ LET digits == digitsOf(pastedText) IN
     IF digits # <<>>
     THEN inputHandlers(formatPhoneNumber(digits),
                        IF formatPhoneNumber(digits) # fields.phone
                        THEN Len(formatPhoneNumber(digits))
                        ELSE Min(selectionStart, Len(fields.phone)))
     ELSE UNCHANGED <<fields, fieldErrors, selectionStart, timers>>
  /\ UNCHANGED <<focused, formRest, textVars, settingsVars, analyticsVars,
                 pricingVars>>

\* the first pending callback runs: setSelectionRange, which keeps within the value
timerFires ==
  /\ timers # <<>>
  /\ timers' = Tail(timers)
  /\ LET callback == Head(timers) IN
     selectionStart' =
       IF callback.op = "set" THEN Min(callback.at, Len(fields.phone))
       ELSE IF selectionStart < callback.at THEN Min(callback.at, Len(fields.phone))
       ELSE selectionStart
  /\ UNCHANGED <<focused, fields, fieldErrors, formRest, textVars, settingsVars,
                 analyticsVars, pricingVars>>

PhoneInit ==
  /\ FormInit
  /\ scripts = [gas |-> FALSE, bitrix |-> FALSE, hook |-> "returns"]
  /\ TextStart(<<>>)
  /\ SettingsStart([settings |-> "full", default |-> "defaultFull"])
  /\ AnalyticsStart("enabled")
  /\ PricingStart("priced")

PhoneNext ==
  \/ \E at \in 0..18 : focusPhone(at)
  \/ blurPhone
  \/ \E c \in TypedDigits : typeDigit(c)
  \/ pressBackspace
  \/ \E pastedText \in PastedTexts : pastePhone(pastedText)
  \/ timerFires

PhoneSpec == PhoneInit /\ [][PhoneNext]_vars


\* ------------------------------------------------ the sections' settings

LoadIds == 1..MaxLoads

\* loadSectionsSettings going over to recoverFromDefault, which fetches the default
recoverFromDefault(rec) ==
  [rec EXCEPT !.pc = "await_default", !.calls = @ \cup {"default"}]

\* recoverFromDefault whose catch block shows nothing
applyRecoveredNoCatch(r, rec, settings) ==
  LET applied == applySectionsSettings(settings, display) IN
  /\ display' = applied.display
  /\ loads' = [loads EXCEPT ![r] =
                 [rec EXCEPT !.pc = "done",
                             !.end = IF applied.threw THEN "shown_all" ELSE "applied"]]

\* recoverFromDefault from its call of applySectionsSettings on, showAllSections in
\* its catch block included, for the invocation r that has come to rec
applyRecovered(r, rec, settings) ==
  LET applied == applySectionsSettings(settings, display) IN
  /\ display' = IF applied.threw THEN showAllSections ELSE applied.display
  /\ loads' = [loads EXCEPT ![r] =
                 [rec EXCEPT !.pc = "done",
                             !.end = IF applied.threw THEN "shown_all" ELSE "applied"]]

\* the fetch of data/settings.json of loadSectionsSettings ends
settingsFetched(r) ==
  /\ loads[r].pc = "await_settings"
  /\ LET name == origin.settings
         rec == [loads[r] EXCEPT !.primary = name]
     IN IF name = "unreachable" \/ ~validateSettingsIntegrity(Document(name)).valid
        THEN /\ loads' = [loads EXCEPT ![r] = recoverFromDefault(rec)]
             /\ UNCHANGED <<sectionsSettings, display>>
        ELSE LET applied == applySectionsSettings(Document(name).sections, display) IN
             /\ sectionsSettings' = Document(name).sections
             /\ display' = applied.display
             /\ loads' = [loads EXCEPT ![r] =
                            IF applied.threw THEN recoverFromDefault(rec)
                            ELSE [rec EXCEPT !.pc = "done", !.end = "applied"]]
  /\ UNCHANGED <<origin, programsPc, lastTick, formVars, textVars,
               analyticsVars, phoneVars, pricingVars>>

\* the fetch of data/settings-default.json of recoverFromDefault ends. Without
\* window.GAS_API saveRecoveredSettings fails at once, in its own try block, and
\* recoverFromDefault goes on within the same task.
defaultFetched(r) ==
  /\ loads[r].pc = "await_default"
  /\ LET name == origin.default
         defaultSettings == Document(name)
     IN IF name # "unreachable" /\ defaultSettings.hasSections
             /\ DOMAIN defaultSettings.sections # {}
        THEN /\ sectionsSettings' = defaultSettings.sections
             /\ IF scripts.gas
                THEN /\ loads' = [loads EXCEPT ![r] = [@ EXCEPT !.pc = "await_save",
                                                                !.calls = @ \cup {"save"}]]
                     /\ UNCHANGED display
                ELSE applyRecovered(r, loads[r], defaultSettings.sections)
        ELSE /\ display' = showAllSections
             /\ loads' = [loads EXCEPT ![r] = [@ EXCEPT !.pc = "done", !.end = "shown_all"]]
             /\ UNCHANGED sectionsSettings
  /\ UNCHANGED <<origin, programsPc, lastTick, formVars, textVars,
               analyticsVars, phoneVars, pricingVars>>

\* the save-back call of saveRecoveredSettings ends, in success or in any failure
saveDone(r) ==
  /\ loads[r].pc = "await_save"
  /\ applyRecovered(r, loads[r], sectionsSettings)
  /\ UNCHANGED <<sectionsSettings, origin, programsPc, lastTick, formVars, textVars,
               analyticsVars, phoneVars, pricingVars>>

\* the callback of setInterval, every 30 seconds
tick ==
  /\ \/ /\ DOMAIN sectionsSettings = {}
        /\ \E r \in LoadIds :
              /\ loads[r].pc \in {"free", "done"}
              /\ \A q \in LoadIds : q < r => loads[q].pc \notin {"free", "done"}
              /\ loads' = [loads EXCEPT ![r] = [FreeLoad EXCEPT !.pc = "await_settings"]]
        /\ lastTick' = "started"
     \/ /\ DOMAIN sectionsSettings # {}
        /\ lastTick' = "skipped"
        /\ UNCHANGED loads
  /\ UNCHANGED <<sectionsSettings, display, origin, programsPc, formVars, textVars,
               analyticsVars, phoneVars, pricingVars>>

\* the programsLoaded event, which programs.js dispatches once its data is rendered
programsLoaded ==
  /\ programsPc = "loading"
  /\ programsPc' = "loaded"
  /\ display' = IF DOMAIN sectionsSettings # {}
                THEN applySectionsSettings(sectionsSettings, display).display
                ELSE display
  /\ UNCHANGED <<sectionsSettings, origin, loads, lastTick, formVars, textVars,
               analyticsVars, phoneVars, pricingVars>>

\* the site's files change: data/settings.json or data/settings-default.json
publish(file, name) ==
  /\ origin[file] # name
  /\ origin' = [origin EXCEPT ![file] = name]
  /\ UNCHANGED <<sectionsSettings, display, loads, programsPc, lastTick, formVars, textVars,
               analyticsVars, phoneVars, pricingVars>>

SettingsInit ==
  /\ FormInit
  /\ ~scripts.bitrix
  /\ TextStart(<<>>)
  /\ \E files \in [settings : SettingsFiles, default : DefaultFiles] : SettingsStart(files)
  /\ AnalyticsStart("enabled")
  /\ PricingStart("priced")

SettingsNext ==
  \/ \E r \in LoadIds : settingsFetched(r)
  \/ \E r \in LoadIds : defaultFetched(r)
  \/ \E r \in LoadIds : saveDone(r)
  \/ tick
  \/ programsLoaded
  \/ \E name \in SettingsFiles : publish("settings", name)
  \/ \E name \in DefaultFiles : publish("default", name)

SettingsSpec == SettingsInit /\ [][SettingsNext]_vars

\* every started fetch and save-back call ends, and the interval keeps firing
SettingsFairness ==
  /\ \A r \in LoadIds :
        WF_vars(settingsFetched(r)) /\ WF_vars(defaultFetched(r)) /\ WF_vars(saveDone(r))
  /\ WF_vars(tick)

FairSettingsSpec == SettingsSpec /\ SettingsFairness


\* ----------------------------------------------------- the pricing section

\* hasPricingData once programsData holds the programs of the file
hasPricingData == programsFile = "priced"

\* settings.sections?.pricing?.enabled !== false
pricingEnabled(settings) ==
  ~(settings.hasSections /\ "pricing" \in DOMAIN settings.sections
      /\ settings.sections["pricing"].enabled = "false")

\* the fetch of data/programs.json of loadPrograms ends: renderPrograms calls
\* updatePricingSectionVisibility, which starts its own fetch of data/settings.json,
\* and the programsLoaded event runs the listener of blocks-manager.js at once; a file
\* that cannot be read ends loadPrograms in its catch block
loadPrograms ==
  /\ programsPc = "loading"
  /\ IF programsFile = "unreachable"
     THEN /\ programsPc' = "failed"
          /\ UNCHANGED <<display, pricingPc>>
     ELSE /\ programsPc' = "loaded"
          /\ pricingPc' = "await"
          /\ display' = IF DOMAIN sectionsSettings # {}
                        THEN applySectionsSettings(sectionsSettings, display).display
                        ELSE display
  /\ UNCHANGED <<sectionsSettings, origin, loads, lastTick, programsFile, formVars, textVars,
                 analyticsVars, phoneVars>>

\* the fetch of data/settings.json of updatePricingSectionVisibility ends, in its
\* then-callback or, for a file that cannot be read, in its catch-callback
pricingFetched ==
  /\ pricingPc = "await"
  /\ pricingPc' = "done"
  /\ display' = [display EXCEPT !["pricing"] =
       IF origin.settings = "unreachable"
       THEN IF hasPricingData THEN "block" ELSE "none"
       ELSE IF pricingEnabled(Document(origin.settings)) /\ hasPricingData
            THEN "block" ELSE "none"]
  /\ UNCHANGED <<sectionsSettings, origin, loads, programsPc, lastTick, programsFile, formVars,
                 textVars, analyticsVars, phoneVars>>

PricingInit ==
  /\ FormInit
  /\ ~scripts.bitrix
  /\ TextStart(<<>>)
  /\ \E files \in [settings : SettingsFiles, default : DefaultFiles] : SettingsStart(files)
  /\ AnalyticsStart("enabled")
  /\ \E file \in ProgramsFiles : PricingStart(file)

PricingNext ==
  \/ \E r \in LoadIds : settingsFetched(r)
  \/ \E r \in LoadIds : defaultFetched(r)
  \/ \E r \in LoadIds : saveDone(r)
  \/ tick
  \/ loadPrograms
  \/ pricingFetched

PricingSpec == PricingInit /\ [][PricingNext]_vars


\* ----------------------------------------------------- the analytics events

\* the module's variables after its functions have come to tracker
Tracked(tracker) ==
  /\ YandexMetrikaConfig' = tracker.config
  /\ metrikaInitialized' = tracker.initialized
  /\ eventQueue' = tracker.queue
  /\ reached' = tracker.reached

\* an event is raised: one of the track functions, logFormSuccess and logFormError of
\* the form among them, calls trackEvent
raiseEvent(name) ==
  /\ Len(raised) < MaxEvents
  /\ LET event == [name |-> name, id |-> Len(raised) + 1,
                   early |-> ~metrikaInitialized]
     IN /\ raised' = Append(raised, event)
        /\ Tracked(trackEvent(Tracker(YandexMetrikaConfig, metrikaInitialized, eventQueue,
                                      reached), event))
  /\ UNCHANGED <<configFile, analyticsPc, formVars, textVars, settingsVars,
                 phoneVars, pricingVars>>

\* initAnalytics after its await of loadAnalyticsConfig: the configuration is read,
\* initYandexMetrika runs and trackPageView raises the first event of the page
initAnalytics ==
  /\ analyticsPc = "await_config"
  /\ analyticsPc' = "ready"
  /\ LET config == loadAnalyticsConfig(YandexMetrikaConfig, configFile)
         started == initYandexMetrika(Tracker(config, metrikaInitialized, eventQueue,
                                              reached))
         event == [name |-> "page_view", id |-> Len(raised) + 1,
                   early |-> ~started.initialized]
     IN /\ raised' = Append(raised, event)
        /\ Tracked(trackEvent(started, event))
  /\ UNCHANGED <<configFile, formVars, textVars, settingsVars,
                 phoneVars, pricingVars>>

AnalyticsInit ==
  /\ FormInit
  /\ scripts = [gas |-> FALSE, bitrix |-> FALSE, hook |-> "returns"]
  /\ TextStart(<<>>)
  /\ SettingsStart([settings |-> "full", default |-> "defaultFull"])
  /\ \E file \in ConfigFiles : AnalyticsStart(file)
  /\ PricingStart("priced")

AnalyticsNext ==
  \/ \E name \in EventNames : raiseEvent(name)
  \/ initAnalytics

AnalyticsSpec == AnalyticsInit /\ [][AnalyticsNext]_vars


\* ------------------------------------------------------------ properties

InFlight == {"await_gas", "await_fetch", "await_backoff", "await_mock"}
Ended == {"free", "done"}

\* the entries of calls that are calls of a tier (the backoff waits are not)
IsTier(c) == c.op \in {"gas", "send", "email", "mock"}

\* C1: a submission attempt begins only in state idle or error, and only when no
\* earlier attempt is still under way (every other invocation has ended).
C1_AttemptBeginsIdleOrError ==
  [][\A id \in Slots :
       handleFormSubmit(id) =>
         /\ currentFormState \in {"idle", "error"}
         /\ \A other \in Slots : inv[other].pc \in Ended]_vars

\* a second attempt, begun after an attempt that ended in error, is under way
C1_Witness ==
  /\ \E id \in Slots : inv[id].pc = "await_fetch"
  /\ currentFormState = "submitting"
  /\ transitions = {<<"error", "validating">>, <<"validating", "submitting">>}

AllowedTransitions ==
  {<<"idle", "validating">>, <<"error", "validating">>, <<"validating", "error">>,
   <<"validating", "submitting">>, <<"submitting", "success">>, <<"submitting", "error">>,
   <<"success", "idle">>}

\* C2: every change of currentFormState is one of idle->validating, error->validating,
\* validating->error, validating->submitting, submitting->success, submitting->error,
\* success->idle.
C2_OnlyAllowedTransitions == transitions \subseteq AllowedTransitions

\* the reset timer has just taken the form from success to idle
C2_Witness == transitions = {<<"success", "idle">>}

FormDataValid(formData) == \A f \in FieldNames : validateField(f, formData[f]).valid

\* C3: an invocation that has set submitting or called a tier has form data whose name,
\* phone and program validateField finds valid; an invocation whose form data has an
\* invalid field has ended with the form in state error and has called no tier.
C3_PipelineOnlyAfterValidation ==
  \A id \in Slots :
    LET rec == inv[id] IN
    rec.pc # "free" =>
      /\ (rec.pc \in InFlight \cup {"await_reset"} \/ rec.calls # <<>> \/ rec.result # NoResult)
            => FormDataValid(rec.formData)
      /\ ~FormDataValid(rec.formData) =>
            /\ rec.pc = "done" /\ rec.calls = <<>> /\ rec.result = NoResult
            /\ currentFormState = "error"
            /\ <<"validating", "submitting">> \notin transitions

\* a tier has been called for a valid form
C3_Witness ==
  \E id \in Slots : inv[id].calls # <<>> /\ FormDataValid(inv[id].formData)

Rank(op) ==
  CASE op = "gas" -> 1
    [] op \in {"send", "wait"} -> 2
    [] op = "email" -> 3
    [] OTHER -> 4

FailedSends(rec) == {k \in 1..Len(rec.calls) : rec.calls[k].op = "send" /\ ~rec.calls[k].ok}

\* C4: the tiers of one submission run in the order GAS backend, Bitrix24 webhook, email:
\* the GAS backend comes first when it is there, every failure of it passes on to
\* createLead when that is there, the email tier starts only once all retryAttempts
\* calls of the webhook have failed, nothing is called after a tier has succeeded, and
\* the mock runs only when neither the GAS backend nor createLead is there.
C4_TierOrder ==
  \A id \in Slots :
    LET rec == inv[id]
        calls == rec.calls
        n == Len(calls)
    IN
    /\ \A j, k \in 1..n : j < k => Rank(calls[j].op) <= Rank(calls[k].op)
    /\ \A k \in 1..n : calls[k].op = "gas" => k = 1 /\ scripts.gas
    /\ (scripts.gas /\ n > 0) => calls[1].op = "gas"
    /\ rec.pc \in {"await_fetch", "await_backoff"} => (scripts.gas => n > 0)
    /\ rec.pc = "await_gas" => n = 0 /\ scripts.gas
    /\ (n > 0 /\ calls[1].op = "gas" /\ ~calls[1].ok) =>
          IF scripts.bitrix THEN n > 1 \/ rec.pc = "await_fetch"
          ELSE n = 1 /\ rec.pc = "done" /\ rec.result = NoResult
    /\ \A k \in 1..n : calls[k].op = "email" =>
          /\ k = n
          /\ \A j \in 1..n : calls[j].op = "send" => ~calls[j].ok
          /\ Cardinality(FailedSends(rec)) = (IF rec.attempts > 0 THEN rec.attempts ELSE 0)
    /\ \A k \in 1..n : (IsTier(calls[k]) /\ calls[k].ok) =>
          k = n /\ rec.pc \in {"await_reset", "done"}
    /\ (rec.pc = "await_mock" \/ \E k \in 1..n : calls[k].op = "mock") =>
          ~scripts.gas /\ ~scripts.bitrix /\ n <= 1

\* the GAS backend failed, every call of the webhook failed, and the email tier ran
C4_Witness ==
  \E id \in Slots :
    LET calls == inv[id].calls IN
    /\ Len(calls) >= 4
    /\ calls[1].op = "gas" /\ calls[2].op = "send" /\ calls[Len(calls)].op = "email"

\* the calls of fn and the waits of retryWithBackoff, in order
RECURSIVE RetryLog(_)
RetryLog(calls) ==
  IF calls = <<>> THEN <<>>
  ELSE IF Head(calls).op \in {"send", "wait"} THEN <<Head(calls)>> \o RetryLog(Tail(calls))
  ELSE RetryLog(Tail(calls))

\* retryWithBackoff has thrown: createLead is in, or past, its catch block
RetryThrew(rec) == \E k \in 1..Len(rec.calls) : rec.calls[k].op = "email"

\* C5: for attempts >= 1, retryWithBackoff calls fn and waits in turn; the wait after
\* call k is delay * 2^(k-1); when every call fails there are exactly attempts calls,
\* attempts - 1 waits, no wait after the last call, and the error thrown is the last
\* call's; a call that succeeds is the last thing retryWithBackoff does.
C5_RetryWithBackoff ==
  \A id \in Slots :
    LET rec == inv[id]
        log == RetryLog(rec.calls)
        n == Len(log)
    IN
    (rec.attempts >= 1) =>
      /\ \A k \in 1..n : log[k].op = (IF k % 2 = 1 THEN "send" ELSE "wait")
      /\ \A k \in 1..n : log[k].op = "wait" => log[k].ms = rec.delay * 2^((k \div 2) - 1)
      /\ \A k \in 1..n : (log[k].op = "send" /\ log[k].ok) => k = n
      /\ n <= 2 * rec.attempts - 1
      /\ RetryThrew(rec) =>
            /\ n = 2 * rec.attempts - 1
            /\ \A k \in 1..n : log[k].op = "send" => ~log[k].ok
            /\ rec.retryError = rec.attempts
      /\ (n > 0 /\ log[n].op = "wait") => rec.pc \in {"await_backoff", "await_fetch"}
      /\ (n > 0 /\ log[n].op = "send" /\ log[n].ok) => rec.result = BitrixResult

\* three calls have failed, with the waits 1000 and 2000 between them, and the
\* third error has been thrown
C5_Witness ==
  \E id \in Slots :
    LET rec == inv[id]
        log == RetryLog(rec.calls)
    IN /\ rec.attempts = 3 /\ rec.delay = 1000 /\ RetryThrew(rec)
       /\ Len(log) = 5 /\ log[2].ms = 1000 /\ log[4].ms = 2000
       /\ rec.retryError = 3

\* C6: a call of sendToBitrix24 that fails because the webhook URL is empty is not
\* retried: no backoff wait and no further call of sendToBitrix24 follows it.
C6_ConfigErrorNotRetried ==
  \A id \in Slots :
    LET calls == inv[id].calls IN
    \A k \in 1..Len(calls) :
      (calls[k].op = "send" /\ calls[k].err = "config_error") =>
         (k = Len(calls) \/ calls[k + 1].op = "email")


\* the invocation has run its tiers to the end
Finished(rec) == rec.pc \in {"await_reset", "done"} /\ rec.error # "validation"

\* a valid form whose GAS call, if any, failed and whose webhook calls all failed
PrimaryAndCrmFailed(rec) ==
  /\ Finished(rec)
  /\ FormDataValid(rec.formData)
  /\ scripts.bitrix
  /\ \A k \in 1..Len(rec.calls) : rec.calls[k].op \in {"gas", "send"} => ~rec.calls[k].ok

IsEmailFallback(result) ==
  result.success /\ result.method = "email_fallback" /\ result.warning # ""

\* C7 as claimed: for a valid form with the GAS backend failing and the webhook failing
\* on every attempt the result is the email fallback with a warning.
C7_AlwaysEmailFallback ==
  \A id \in Slots : PrimaryAndCrmFailed(inv[id]) => IsEmailFallback(inv[id].result)

\* C7: for a valid form with the GAS backend failing, the webhook failing on every
\* attempt and sendViaEmail not throwing, the result is success with method
\* email_fallback and a warning, the form is in state success with a 5000 ms timer
\* pending, and the firing of that timer takes the form to idle.
C7_EmailFallbackThenReset ==
  /\ [](\A id \in Slots :
          (PrimaryAndCrmFailed(inv[id]) /\ sendViaEmail(inv[id].formData)) =>
             /\ IsEmailFallback(inv[id].result)
             /\ inv[id].pc = "await_reset" =>
                  currentFormState = "success" /\ inv[id].timer = 5000)
  /\ [][\A id \in Slots :
          (PrimaryAndCrmFailed(inv[id]) /\ inv[id].pc = "await_reset" /\ inv'[id].pc = "done")
             => currentFormState' = "idle"]_vars

\* the email fallback has delivered the result after the GAS call and three webhook calls
\* failed, and the reset timer has fired
C7_Witness ==
  \E id \in Slots :
    /\ PrimaryAndCrmFailed(inv[id]) /\ IsEmailFallback(inv[id].result)
    /\ Len(inv[id].calls) >= 5 /\ inv[id].calls[1].op = "gas"
    /\ inv[id].pc = "done" /\ currentFormState = "idle"

\* C8: a form in state validating, submitting or success comes to state idle or error
\* with the submit button enabled.
C8_ReturnsToInteractive ==
  (currentFormState \in {"validating", "submitting", "success"})
     ~> (currentFormState \in {"idle", "error"} /\ ~submitButton.disabled)

\* an attempt whose every tier failed has left the form in state error, button enabled
C8_Witness ==
  /\ currentFormState = "error" /\ ~submitButton.disabled
  /\ \E id \in Slots : inv[id].pc = "done" /\ Len(inv[id].calls) >= 2 /\ inv[id].result = NoResult


TierCalls(rec) == {k \in 1..Len(rec.calls) : IsTier(rec.calls[k])}

AllTiersFailed(rec) == \A k \in TierCalls(rec) : ~rec.calls[k].ok

\* the message of the error the last tier called from handleFormSubmit ended with
LastTierMessage(rec) ==
  LET last == rec.calls[Len(rec.calls)] IN
  IF last.op = "gas" THEN GasErrorMessage(last.err) ELSE CreateLeadFailedMessage

\* C9: an invocation that has run its tiers to the end has shown an error on the phone
\* field, with the form in state error, if and only if every tier it called failed; the
\* message is that of the last tier's error, or the generic one when that is empty; when
\* a tier succeeded no error was shown and the result is a success.
C9_ErrorShownIffAllTiersFailed ==
  /\ [](\A id \in Slots :
          LET rec == inv[id] IN
          Finished(rec) =>
            /\ (rec.shown # "") <=> AllTiersFailed(rec)
            /\ AllTiersFailed(rec) =>
                 /\ rec.pc = "done" /\ currentFormState = "error"
                 /\ rec.shown = (IF LastTierMessage(rec) = "" THEN GenericErrorMessage
                                 ELSE LastTierMessage(rec))
            /\ ~AllTiersFailed(rec) =>
                 /\ rec.result.success
                 /\ currentFormState \in {"success", "idle"})
  /\ [][\A id \in Slots :
          (inv[id].pc \in InFlight /\ inv'[id].pc = "done")
             => fieldErrors'.phone = inv'[id].shown /\ inv'[id].shown # ""]_vars

\* the GAS call and every webhook call failed, and the email fallback threw: the error
\* of createLead is on the phone field
C9_Witness ==
  \E id \in Slots :
    /\ Finished(inv[id]) /\ Len(inv[id].calls) >= 3
    /\ inv[id].calls[1].op = "gas"
    /\ fieldErrors.phone = CreateLeadFailedMessage
    /\ inv[id].shown = CreateLeadFailedMessage

\* the tier whose successful call produced the result
DeliveredBy(rec) ==
  LET last == rec.calls[Len(rec.calls)] IN
  CASE last.op = "gas" -> "gas"
    [] last.op = "send" -> "bitrix24"
    [] last.op = "email" -> "email_fallback"
    [] OTHER -> "mock"

\* C10 as claimed: every result has method primary, crm, email_fallback or mock, and a
\* warning exactly when the method is email_fallback.
C10_MethodPrimaryOrCrm ==
  \A id \in Slots :
    LET result == inv[id].result IN
    result # NoResult =>
      /\ result.method \in {"primary", "crm", "email_fallback", "mock"}
      /\ (result.warning # "") <=> (result.method = "email_fallback")

\* C10: every result has method gas, bitrix24, email_fallback or mock, naming the tier
\* whose call succeeded, and a warning exactly when the method is email_fallback.
C10_MethodNamesTier ==
  \A id \in Slots :
    LET rec == inv[id]
        result == rec.result
    IN
    result # NoResult =>
      /\ result.method \in {"gas", "bitrix24", "email_fallback", "mock"}
      /\ rec.calls # <<>> /\ rec.calls[Len(rec.calls)].ok
      /\ result.method = DeliveredBy(rec)
      /\ (result.warning # "") <=> (result.method = "email_fallback")

\* the email fallback has produced a result
C10_Witness ==
  \E id \in Slots : inv[id].result.method = "email_fallback" /\ inv[id].result.warning # ""


\* ---------------------------------------------------- properties of the mask

IsDigit(c) == c \in 48..57

\* the digits of the text, a leading 8 replaced by 7, or 7 put in front of a first digit
\* that is neither 7 nor 8; the first 11 of them
MaskDigits(s) ==
  LET d == SelectSeq(s, IsDigit)
      m == IF d = <<>> THEN d
           ELSE IF d[1] = 56 THEN [d EXCEPT ![1] = 55]
           ELSE IF d[1] = 55 THEN d
           ELSE <<55>> \o d
  IN [k \in 1..(IF Len(m) < 11 THEN Len(m) ELSE 11) |-> m[k]]

\* the mask of the digits n (n[1] is the 7), case by case of their number
ReferenceMask(n) ==
  LET k == Len(n)
      part(a, b) == [j \in 1..(b - a + 1) |-> n[a + j - 1]]
  IN CASE k = 0 -> <<>>
       [] k = 1 -> <<43, 55>>
       [] k \in 2..4 -> <<43, 55, 32, 40>> \o part(2, k)
       [] k \in 5..7 -> <<43, 55, 32, 40>> \o part(2, 4) \o <<41, 32>> \o part(5, k)
       [] k \in 8..9 -> <<43, 55, 32, 40>> \o part(2, 4) \o <<41, 32>> \o part(5, 7)
                          \o <<45>> \o part(8, k)
       [] OTHER -> <<43, 55, 32, 40>> \o part(2, 4) \o <<41, 32>> \o part(5, 7)
                     \o <<45>> \o part(8, 9) \o <<45>> \o part(10, k)

\* "+7 (999) 123-45-67"
FullMask == <<43, 55, 32, 40, 57, 57, 57, 41, 32, 49, 50, 51, 45, 52, 53, 45, 54, 55>>

\* C11: for every text, formatPhoneNumber returns the reference mask of its digits
\* (leading 8 made 7, or 7 put in front; the first 11 kept): "" for none, "+7" for one,
\* then " (" and up to three digits, ") " and up to three, "-" and up to two, "-" and up
\* to two; "9991234567" and "89991234567" give "+7 (999) 123-45-67", "71234" gives
\* "+7 (123) 4".
C11_MaskIsReference ==
  /\ formatted = ReferenceMask(MaskDigits(text))
  /\ text \in {<<57, 57, 57, 49, 50, 51, 52, 53, 54, 55>>,
               <<56, 57, 57, 57, 49, 50, 51, 52, 53, 54, 55>>} => formatted = FullMask
  /\ text = <<55, 49, 50, 51, 52>> => formatted = <<43, 55, 32, 40, 49, 50, 51, 41, 32, 52>>

\* "89991234567" followed by a space and a further digit: the mask of the first eleven
C11_Witness ==
  /\ text = <<56, 57, 57, 57, 49, 50, 51, 52, 53, 54, 55, 32, 57>>
  /\ formatted = FullMask



IsPrefix(a, b) == Len(a) <= Len(b) /\ SubSeq(b, 1, Len(a)) = a

AllDigits(s) == \A i \in 1..Len(s) : IsDigit(s[i])

\* C12: for a text d of 0 to 10 digits and a digit x, formatPhoneNumber(d) is a beginning
\* of formatPhoneNumber(d followed by x).
C12_MaskPrefixConsistent ==
  [][(/\ AllDigits(text) /\ Len(text) <= 10
      /\ \E x \in 48..57 : text' = text \o <<x>>)
        => IsPrefix(formatted, formatted')]_vars

\* a tenth digit has been typed after nine: the mask has grown to its last group
C12_Witness ==
  /\ keys = 1 /\ AllDigits(text) /\ Len(text) = 10 /\ text[1] = 55
  /\ formatted = <<43, 55, 32, 40, 57, 57, 57, 41, 32, 49, 50, 51, 45, 52, 53, 45, 55>>



\* ------------------------------------------------ properties of validateField

\* the checks of a rule that fail for the value v, in the order required, min-length,
\* pattern
FailingChecks(f, v) ==
  SelectSeq(<<"required", "minLength", "pattern">>,
            LAMBDA check :
              CASE check = "required"  -> ValidationRules[f].required /\ v = <<>>
                [] check = "minLength" -> ValidationRules[f].minLength > 0
                                            /\ Len(v) < ValidationRules[f].minLength
                [] OTHER               -> ValidationRules[f].hasPattern /\ ~PatternTest(f, v))

\* C13: validateField returns {valid: false, message: the rule's message} when one of
\* the field's checks (required, min-length, pattern) fails and {valid: true} when none
\* does; a field name without a rule is valid for every value; the program is invalid
\* exactly when its value is empty.
C13_ValidateFieldRule ==
  /\ \A f \in FieldNames :
        validation[f] = IF FailingChecks(f, text) = <<>> THEN [valid |-> TRUE, message |-> ""]
                        ELSE [valid |-> FALSE, message |-> ValidationRules[f].message]
  /\ validation["comment"].valid
  /\ validation["program"].valid <=> text # <<>>
  /\ ~validation["program"].valid => validation["program"].message = ProgramMessage

\* a single typed space: the program passes its required-check, the name fails its
\* min-length check only, the phone its pattern check, the comment nothing
C13_Witness ==
  /\ text = <<32>> /\ keys = 1
  /\ FailingChecks("program", text) = <<>>
  /\ FailingChecks("name", text) = <<"minLength">>
  /\ validation["program"].valid
  /\ validation["name"] = [valid |-> FALSE, message |-> NameMessage]
  /\ validation["phone"] = [valid |-> FALSE, message |-> PhoneMessage]
  /\ validation["comment"].valid



\* the Cyrillic block U+0400..U+04FF
CyrillicBlock == 1024..1279

\* C14: validateField('name', v) is valid if and only if v has at least 2 characters,
\* all of them Latin letters, characters of the Cyrillic block U+0400..U+04FF, whitespace
\* or hyphens.
C14_NameCyrillicBlock ==
  validation["name"].valid <=>
    /\ Len(text) >= 2
    /\ \A i \in 1..Len(text) :
          text[i] \in LatinLetter \cup CyrillicBlock \cup WhiteSpace \cup {45}



\* "+7 (ddd) ddd-dd-dd", with 0 where a digit stands
CanonicalPhone == <<43, 55, 32, 40, 0, 0, 0, 41, 32, 0, 0, 0, 45, 0, 0, 45, 0, 0>>

IsCanonicalPhone(v) ==
  /\ Len(v) = Len(CanonicalPhone)
  /\ \A i \in 1..Len(v) :
        IF CanonicalPhone[i] = 0 THEN IsDigit(v[i]) ELSE v[i] = CanonicalPhone[i]

\* C15: validateField('phone', v) is valid if and only if v is exactly of the form
\* "+7 (ddd) ddd-dd-dd"; the empty string, every shorter beginning of a full mask (such
\* as "+7 (999) 123-45-6") and a full mask followed by further characters are invalid.
C15_PhoneExactlyCanonical ==
  /\ validation["phone"].valid <=> IsCanonicalPhone(text)
  /\ (text = <<>> \/ (IsPrefix(text, FullMask) /\ text # FullMask)
        \/ (IsPrefix(FullMask, text) /\ text # FullMask))
       => validation["phone"] = [valid |-> FALSE, message |-> PhoneMessage]

\* "+7 (999) 123-45-6" was invalid; with the last digit typed the phone is valid
C15_Witness ==
  /\ keys = 1 /\ IsCanonicalPhone(text) /\ validation["phone"].valid
  /\ SubSeq(text, 1, 17) = SubSeq(FullMask, 1, 17)


\* the required sections a document lacks
AbsentRequired(doc) ==
  {k \in {"problemSolution", "programs", "socialProof", "testimonials", "gallery", "faq",
          "leadForm"} : k \notin DOMAIN doc.sections}

\* the page a settings map asks for: a section hidden exactly when the map disables it
AppliedDisplay(sections) ==
  [k \in SectionKeys |-> IF k \in DOMAIN sections /\ sections[k].enabled = "false"
                         THEN "none" ELSE ""]

\* the fetched document goes to the default: nothing of it applied, the default fetched
RejectedAt(r) ==
  /\ sectionsSettings' = sectionsSettings
  /\ display' = display
  /\ loads'[r].pc = "await_default"
  /\ "default" \in loads'[r].calls

\* the fetched document is applied as fetched, and the run ends with no fallback call
AppliedAsFetchedAt(r, doc) ==
  /\ sectionsSettings' = doc.sections
  /\ display' = AppliedDisplay(doc.sections)
  /\ loads'[r].pc = "done"
  /\ loads'[r].end = "applied"
  /\ loads'[r].calls = {}

C17_FailsOpen ==
  [][\A r \in LoadIds :
       loads[r].pc # "done" /\ loads'[r].pc = "done" =>
         \/ DOMAIN sectionsSettings' # {} /\ display' = AppliedDisplay(sectionsSettings')
         \/ \A k \in SectionKeys : display'[k] = ""]_vars

\* a run whose primary document hid a section before its applying threw, and whose
\* default threw as well after the save-back call, has ended with every section visible
C17_Witness ==
  \E r \in LoadIds :
    /\ loads[r].pc = "done" /\ loads[r].end = "shown_all"
    /\ loads[r].primary = "nullItem" /\ loads[r].calls = {"default", "save"}
    /\ sectionsSettings = Document("nullItem").sections
    /\ \A k \in SectionKeys : display[k] = ""


\* a tick starts a load exactly when the settings map is empty at the tick
TickLoadsIffEmpty ==
  [][tick => ((\E r \in LoadIds : loads'[r] # loads[r] /\ loads'[r].pc = "await_settings")
               <=> DOMAIN sectionsSettings = {})]_vars

\* data/settings.json is loadable, passes the integrity check and applies without an
\* exception
SettingsGood == origin.settings \in {"fourRequired", "full"}

\* data/settings-default.json is loadable, holds sections and applies without an
\* exception
DefaultGood == origin.default = "defaultFull"

\* some run of loadSectionsSettings has applied a settings map
SettingsApplied == \E r \in LoadIds : loads[r].end = "applied"

\* C18: the 30-second check starts loadSectionsSettings exactly when the settings map
\* is empty at the tick (so no tick starts a load while the map is non-empty), and
\* consequently, once a settings or default document is and stays loadable and valid,
\* settings are eventually applied, whatever the earlier hydrations left behind.
C18_RetryUntilApplied ==
  /\ TickLoadsIffEmpty
  /\ (<>[]SettingsGood \/ <>[]DefaultGood) => <>SettingsApplied


\* subsequence of a sequence: the elements that satisfy Early, in their order
RECURSIVE EarlyOf(_)
EarlyOf(events) ==
  IF events = <<>> THEN <<>>
  ELSE IF Head(events).early THEN <<Head(events)>> \o EarlyOf(Tail(events))
  ELSE EarlyOf(Tail(events))

RECURSIVE LateOf(_)
LateOf(events) ==
  IF events = <<>> THEN <<>>
  ELSE IF ~Head(events).early THEN <<Head(events)>> \o LateOf(Tail(events))
  ELSE LateOf(Tail(events))

\* C19: on a page whose data/config.json enables the counter, every event raised
\* before the backend is initialised is queued, and once the backend is initialised
\* the goals reached are the events raised before, each once and in their order,
\* followed by the events raised after; none is lost or reached twice.
C19_QueuedThenFlushedInOrder ==
  configFile = "enabled" =>
    /\ ~metrikaInitialized => eventQueue = raised /\ reached = <<>>
    /\ metrikaInitialized => eventQueue = <<>> /\ reached = EarlyOf(raised) \o LateOf(raised)


\* C20: in every reachable state the submit button is disabled exactly in the states
\* validating, submitting and success, and in the error state it carries the
\* try-again label; from the success state the button stays disabled in every step
\* but the auto-reset, which brings the idle state.
C20_ButtonFollowsState ==
  /\ [](/\ submitButton.disabled <=>
              currentFormState \in {"validating", "submitting", "success"}
        /\ currentFormState = "error" => submitButton.textContent = "try again")
  /\ [][currentFormState = "success" =>
          \/ submitButton'.disabled /\ currentFormState' = "success"
          \/ /\ \E id \in Slots : inv[id].pc = "await_reset" /\ inv'[id].pc = "done"
             /\ currentFormState' = "idle"]_vars

\* a submission of the mock tier has succeeded: the button is disabled under the
\* sent label while the auto-reset is pending
C20_Witness ==
  /\ currentFormState = "success"
  /\ submitButton = [disabled |-> TRUE, textContent |-> "sent"]
  /\ \E id \in Slots : inv[id].pc = "await_reset" /\ inv[id].result.method = "mock"

\* C27: formatPhoneNumber is idempotent: the mask of a text, formatted again, is that
\* mask, and every non-empty mask starts with "+7".
C27_MaskIdempotent ==
  /\ formatPhoneNumber(formatted) = formatted
  /\ formatted # <<>> => Len(formatted) >= 2 /\ SubSeq(formatted, 1, 2) = <<43, 55>>

\* "89991234567" has been typed to its end: its mask differs from the text, and
\* formatting the mask again changes nothing
C27_Witness ==
  /\ keys = 1
  /\ text = <<56, 57, 57, 57, 49, 50, 51, 52, 53, 54, 55>>
  /\ formatted # text /\ Len(formatted) = 18
  /\ formatPhoneNumber(formatted) = formatted

\* a digit sequence after the normalisation of its first digit and the cap at 11
Normalised(d) ==
  LET withSeven == IF d = <<>> THEN d
                   ELSE IF d[1] = 56 THEN <<55>> \o SubSeq(d, 2, Len(d))
                   ELSE IF d[1] = 55 THEN d
                   ELSE <<55>> \o d
  IN SubSeq(withSeven, 1, Min(11, Len(withSeven)))

\* C28: the mask and the validator agree: for a text of digits only, the mask of the
\* text is a valid phone exactly when the text, its first digit normalised and capped
\* at 11 digits, has 11 digits.
C28_MaskValidIffElevenDigits ==
  AllDigits(text) =>
    (validateField("phone", formatPhoneNumber(text)).valid <=> Len(Normalised(text)) = 11)

\* "9991234567" has been typed to its end: ten digits, eleven once the 7 is put
\* before them, and the mask is a valid phone
C28_Witness ==
  /\ keys = 1
  /\ text = <<57, 57, 57, 49, 50, 51, 52, 53, 54, 55>>
  /\ Len(Normalised(text)) = 11
  /\ validateField("phone", formatted).valid


\* the values an input event can leave in a field
InputsOf(f) ==
  CASE f = "name" -> NameInputs
    [] f = "phone" -> PhoneInputs
    [] OTHER -> ProgramInputs

\* C21: an input event on name, phone or program clears that field's error display,
\* whatever the new value is and whether validateField accepts it or not, shows no new
\* error, and leaves the error displays of the other fields, the form state and the
\* submit button as they were.
C21_InputClearsOwnErrorOnly ==
  [][\A f \in FieldNames :
       (\E v \in InputsOf(f) : UserInput(f, v)) =>
         /\ fieldErrors'[f] = ""
         /\ \A g \in FieldNames \ {f} : fieldErrors'[g] = fieldErrors[g]
         /\ currentFormState' = currentFormState
         /\ submitButton' = submitButton]_vars

\* after a submission that validation refused, "A" was entered as the name: the name,
\* which validateField refuses, shows no error, while the program's error is still
\* shown and the form is still in state error
C21_Witness ==
  /\ currentFormState = "error"
  /\ fields.name = <<65>> /\ ~validateField("name", fields.name).valid
  /\ fieldErrors.name = ""
  /\ fieldErrors.program = ProgramMessage


\* C22: a focus of the phone input with an empty value makes the value "+7 (" and puts
\* the caret at index 4 (at once, and again by the callback it schedules); a blur turns
\* a value equal to "+7 (", "+7" or "+" into the empty string and leaves every other
\* value as it is; so a focus and a blur of an empty phone input, with nothing typed,
\* leave it empty.
C22_FocusPrefillsBlurClears ==
  [][/\ (\E at \in 0..18 : focusPhone(at)) /\ fields.phone = <<>> =>
          /\ fields'.phone = <<43, 55, 32, 40>>
          /\ selectionStart' = 4
          /\ timers' # <<>> /\ timers'[Len(timers')] = [op |-> "set", at |-> 4]
     /\ blurPhone =>
          fields'.phone = IF fields.phone \in {<<43, 55, 32, 40>>, <<43, 55>>, <<43>>}
                          THEN <<>> ELSE fields.phone
     /\ blurPhone /\ fields.phone = <<43, 55, 32, 40>> => fields'.phone = <<>>]_vars

\* the empty phone input has been given the focus and the callback has run: the value
\* is "+7 (" with the caret behind it
C22_Witness ==
  /\ focused /\ fields.phone = <<43, 55, 32, 40>>
  /\ selectionStart = 4 /\ timers = <<>>
  /\ fieldErrors.phone = ""

\* C30 as stated: on a blur of the phone input the cleanup runs before the validation;
\* a value that is only "+7 (", "+7" or "+" is cleared, and after the blur no phone error
\* is displayed.
C30_PrefixBlurShowsNoError ==
  [][blurPhone /\ fields.phone \in MaskPrefixes =>
       fields'.phone = <<>> /\ fieldErrors'.phone = ""]_vars

\* C30 amended: on a blur of the phone input the cleanup runs before the validation: the
\* error displayed after the blur is what validateField finds for the cleaned value; a
\* value that is only "+7 (", "+7" or "+" is cleared and validated as the empty string,
\* which the phone pattern refuses, so that the field is empty and the phone's message
\* is displayed.
C30_CleanupThenValidation ==
  [][blurPhone =>
       LET cleaned == IF fields.phone \in MaskPrefixes THEN <<>> ELSE fields.phone IN
       /\ fields'.phone = cleaned
       /\ fieldErrors'.phone = IF PhonePattern(trim(cleaned)) THEN "" ELSE PhoneMessage
       /\ fields.phone \in MaskPrefixes => fieldErrors'.phone = PhoneMessage]_vars

\* the phone input has lost the focus with a value the cleanup cleared: it is empty,
\* and the phone's message is displayed
C30_Witness ==
  /\ ~focused /\ fields.phone = <<>> /\ timers = <<>>
  /\ fieldErrors.phone = PhoneMessage


\* no load is under way: every loadSectionsSettings has ended, loadPrograms has ended,
\* and the fetch of updatePricingSectionVisibility, if started, has ended
AllLoadsCompleted ==
  /\ \A r \in LoadIds : loads[r].pc \in {"free", "done"}
  /\ programsPc # "loading"
  /\ pricingPc # "await"

\* C23: whatever the order of the settings load of blocks-manager.js, its recovery from
\* the default, the re-apply on programsLoaded and the settings fetch of
\* updatePricingSectionVisibility, once all loads have completed (the programs read,
\* a settings map applied) the pricing section is visible only if the applied settings
\* do not disable pricing and some program has a positive basePrice.
C23_PricingVisibleOnlyIfEnabledAndPriced ==
  /\ AllLoadsCompleted /\ programsPc = "loaded" /\ pricingPc = "done"
  /\ \E r \in LoadIds : loads[r].end = "applied"
  /\ display["pricing"] # "none"
  =>
    /\ ~("pricing" \in DOMAIN sectionsSettings /\ sectionsSettings["pricing"].enabled = "false")
    /\ programsFile = "priced"


\* createLead was called for the invocation and has ended
CreateLeadEnded(rec) ==
  /\ Finished(rec)
  /\ scripts.bitrix
  /\ \A k \in 1..Len(rec.calls) : rec.calls[k].op = "gas" => ~rec.calls[k].ok
  /\ rec.calls # <<>> \/ ~scripts.gas

\* some call of sendToBitrix24 completed without throwing
SomeSendCompleted(rec) ==
  \E k \in 1..Len(rec.calls) : rec.calls[k].op = "send" /\ rec.calls[k].ok

\* C24 as stated: createLead returns method bitrix24 only if some call of
\* sendToBitrix24 completed without throwing; in every other case, retryAttempts <= 0
\* with no call at all included, it returns the email fallback with a warning.
C24_BitrixOrEmailFallback ==
  \A id \in Slots :
    CreateLeadEnded(inv[id]) =>
      /\ inv[id].result.method = "bitrix24" => SomeSendCompleted(inv[id])
      /\ ~SomeSendCompleted(inv[id]) => IsEmailFallback(inv[id].result)

\* C24 amended: createLead returns method bitrix24 only if some call of sendToBitrix24
\* completed without throwing; in every other case, retryAttempts <= 0 with no call at
\* all included, it returns the email fallback with a warning when sendViaEmail returns,
\* and throws its own error, with no result, when sendViaEmail throws; it never reports
\* the CRM for a lead no call sent.
C24_BitrixOnlyAfterSend ==
  \A id \in Slots :
    CreateLeadEnded(inv[id]) =>
      /\ inv[id].result.method = "bitrix24" => SomeSendCompleted(inv[id])
      /\ ~SomeSendCompleted(inv[id]) /\ sendViaEmail(inv[id].formData) =>
            IsEmailFallback(inv[id].result)
      /\ ~SomeSendCompleted(inv[id]) /\ ~sendViaEmail(inv[id].formData) =>
            /\ inv[id].result = NoResult
            /\ inv[id].error = CreateLeadFailedMessage

\* with retryAttempts 0 in the configuration, createLead has ended without any call of
\* sendToBitrix24 and has returned the email fallback
C24_Witness ==
  \E id \in Slots :
    /\ CreateLeadEnded(inv[id])
    /\ Bitrix24Config.retryAttempts = 0
    /\ \A k \in 1..Len(inv[id].calls) : inv[id].calls[k].op # "send"
    /\ IsEmailFallback(inv[id].result)



C25_HookThrewAfterSuccess ==
  \E id \in Slots :
    /\ inv[id].pc = "done"
    /\ inv[id].result.success
    /\ inv[id].shown = HookErrorMessage
    /\ currentFormState = "error"
    /\ successMessages # <<>>


\* ------------------------------------------------------------ C26
\* every assignment to sectionsSettings assigns a non-empty mapping, so a non-empty
\* map stays non-empty
NonEmptyStays ==
  [][/\ sectionsSettings' # sectionsSettings => DOMAIN sectionsSettings' # {}
     /\ DOMAIN sectionsSettings # {} => DOMAIN sectionsSettings' # {}]_vars

\* once a run has applied a settings map, no tick starts another load
NoLoadAfterHydration ==
  [][(SettingsApplied /\ tick) => (lastTick' = "skipped" /\ loads' = loads)]_vars

\* runs have ended, and each of them ended in showAllSections
OnlyShownAll ==
  /\ \E r \in LoadIds : loads[r].end = "shown_all"
  /\ ~SettingsApplied

\* while only the show-all fallback has been applied the map is empty, and a tick
\* starts a new load
ShownAllKeepsRetrying ==
  [][OnlyShownAll => /\ DOMAIN sectionsSettings = {}
                     /\ tick => lastTick' = "started"]_vars

\* C26: sectionsSettings is only ever assigned a non-empty mapping and, once
\* non-empty, stays non-empty; after the first successful hydration the periodic
\* check never starts another load; while only the show-all fallback has been
\* applied the map remains empty and every tick starts a new load.
C26_MapEmptyUntilHydrated ==
  /\ NonEmptyStays
  /\ NoLoadAfterHydration
  /\ ShownAllKeepsRetrying


\* ------------------------------------------------------------ C29
\* sendToBitrix24 found Bitrix24Config.webhookUrl empty in some call of rec
RanUnconfigured(rec) ==
  \E k \in 1..Len(rec.calls) : rec.calls[k].op = "send" /\ rec.calls[k].err = "config_error"

\* C29: the integrations configuration is loaded before it is used: no invocation
\* is inside createLead (waiting for the CRM's answer or for a backoff) while
\* loadBitrix24Config is in flight, and no submission has run with the empty
\* built-in webhook URL when the configuration document sets one.
C29_ConfigLoadedBeforeUse ==
  \A id \in Slots :
    /\ inv[id].pc \in {"await_fetch", "await_backoff"} => configPc # "loading"
    /\ RanUnconfigured(inv[id]) => Bitrix24Config.webhookUrl = ""

\* a submission went to the email fallback for want of a webhook URL, and the
\* configuration loaded since then holds one
C29_SentBeforeConfigured ==
  \E id \in Slots :
    /\ RanUnconfigured(inv[id])
    /\ inv[id].result.success /\ inv[id].result.method = "email_fallback"
    /\ configPc = "done" /\ Bitrix24Config.webhookUrl # ""

=============================================================================
